---- MODULE Spec2Model ----
(***************************************************************************)
(* Model of the speech-metrics analysis engine of voice_meter              *)
(* (backend/app/services/speech_analysis_service.py and the utilities in   *)
(* backend/app/utils).                                                     *)
(*                                                                         *)
(* Conventions.  A text is a sequence of characters; a character is a      *)
(* one-letter string, and an accented letter is named by its entity name   *)
(* (aacute, atilde, ccedil, ...).  Real numbers are exact fixed-point      *)
(* integers: times in 1/100 s, and every reported metric in the unit of    *)
(* the precision the code rounds it to (round(x, 1) -> tenths,             *)
(* round(x, 2) -> hundredths, round(x, 3) -> thousandths).                 *)
(***************************************************************************)
EXTENDS Integers, Sequences, FiniteSets, TLC

VARIABLES text, total_duration, segments, language_hint, language, pc, result,
          service, module_tables, calls, clock, metrics, constructed

vars == <<text, total_duration, segments, language_hint, language, pc, result,
          service, module_tables, calls, clock, metrics, constructed>>

(***************************************************************************)
(* Lexical tables (module-level constants of the service).                 *)
(***************************************************************************)
PORTUGUESE_VOWELS ==
  { "a", "e", "i", "o", "u", "agrave", "aacute", "acirc", "atilde", "auml", "egrave", "eacute",
    "ecirc", "euml", "igrave", "iacute", "icirc", "iuml", "ograve", "oacute", "ocirc", "otilde",
    "ouml", "ugrave", "uacute", "ucirc", "uuml" }

PORTUGUESE_FILLERS ==
  { <<"a","h">>, <<"a","h","n">>, <<"a","s","s","i","m">>,
    <<"b","a","s","i","c","a","m","e","n","t","e">>, <<"b","e","m">>, <<"b","o","m">>,
    <<"e","h">>, <<"e","n","f","i","m">>, <<"e","n","t","e","n","d","e">>,
    <<"e","n","t","atilde","o">>, <<"h","u","m">>,
    <<"l","i","t","e","r","a","l","m","e","n","t","e">>, <<"n","eacute">>, <<"o","l","h","a">>,
    <<"p","o","i","s">>, <<"s","a","b","e">>, <<"t","i","p","o">>, <<"u","h","m">>,
    <<"v","e","j","a">>, <<"eacute">> }

PORTUGUESE_FUNCTION_WORDS ==
  { <<"a">>, <<"a","q","u","e","l","a">>, <<"a","q","u","e","l","e">>,
    <<"a","q","u","i","l","o">>, <<"a","s">>, <<"c","o","m">>, <<"c","o","m","o">>,
    <<"c","o","n","t","u","d","o">>, <<"d","a">>, <<"d","a","s">>, <<"d","e">>, <<"d","o">>,
    <<"d","o","s">>, <<"e">>, <<"e","l","a">>, <<"e","l","a","s">>, <<"e","l","e">>,
    <<"e","l","e","s">>, <<"e","m">>, <<"e","s","s","a">>, <<"e","s","s","e">>,
    <<"e","s","t","a">>, <<"e","s","t","a","r">>, <<"e","s","t","e">>, <<"e","u">>,
    <<"f","o","i">>, <<"f","o","r","a","m">>, <<"h","a","v","e","r">>, <<"i","s","s","o">>,
    <<"i","s","t","o">>, <<"l","h","e">>, <<"l","h","e","s">>, <<"m","a","s">>, <<"m","e">>,
    <<"m","e","u">>, <<"m","i","n","h","a">>, <<"n","a">>, <<"n","a","s">>, <<"n","o">>,
    <<"n","o","s">>, <<"n","o","s","s","a">>, <<"n","o","s","s","o">>, <<"n","oacute","s">>,
    <<"o">>, <<"o","n","d","e">>, <<"o","s">>, <<"o","u">>, <<"p","a","r","a">>, <<"p","o","r">>,
    <<"p","o","r","eacute","m">>, <<"q","u","a","i","s">>, <<"q","u","a","l">>,
    <<"q","u","a","n","d","o">>, <<"q","u","e">>, <<"q","u","e","m">>, <<"s","e">>,
    <<"s","e","m">>, <<"s","e","r">>, <<"s","e","r","i","a">>, <<"s","e","r","aacute">>,
    <<"s","e","u">>, <<"s","o","b">>, <<"s","o","b","r","e">>, <<"s","u","a">>,
    <<"s","atilde","o">>, <<"t","e">>, <<"t","e","r">>, <<"t","e","u">>,
    <<"t","o","d","a","v","i","a">>, <<"t","u">>, <<"t","u","a">>, <<"u","m">>, <<"u","m","a">>,
    <<"u","m","a","s">>, <<"u","n","s">>, <<"v","o","s">>, <<"v","oacute","s">>, <<"eacute">> }

PORTUGUESE_COMPLEX_SUFFIXES ==
  << <<"m","e","n","t","e">>, <<"ccedil","atilde","o">>, <<"ccedil","otilde","e","s">>,
     <<"d","a","d","e">>, <<"i","s","m","o">>, <<"i","s","t","a">>, <<"iacute","v","e","l">>,
     <<"aacute","v","e","l">>, <<"ecirc","n","c","i","a">>, <<"acirc","n","c","i","a">>,
     <<"m","e","n","t","o">>, <<"t","i","v","o">> >>

ENGLISH_VOWELS ==
  { "a", "e", "i", "o", "u", "y" }

ENGLISH_FILLERS ==
  { <<"a","c","t","u","a","l","l","y">>, <<"a","h">>, <<"a","n","y","w","a","y">>,
    <<"b","a","s","i","c","a","l","l","y">>, <<"e","r">>, <<"h","o","n","e","s","t","l","y">>,
    <<"i"," ","m","e","a","n">>, <<"k","i","n","d"," ","o","f">>, <<"l","i","k","e">>,
    <<"l","i","t","e","r","a","l","l","y">>, <<"o","k","a","y">>, <<"r","i","g","h","t">>,
    <<"s","o">>, <<"s","o","r","t"," ","o","f">>, <<"u","h">>, <<"u","h","m">>, <<"u","m">>,
    <<"w","e","l","l">>, <<"w","h","a","t","e","v","e","r">>,
    <<"y","o","u"," ","k","n","o","w">> }

ENGLISH_FUNCTION_WORDS ==
  { <<"a">>, <<"a","b","o","u","t">>, <<"a","b","o","v","e">>, <<"a","f","t","e","r">>,
    <<"a","g","a","i","n","s","t">>, <<"a","l","l">>, <<"a","l","s","o">>, <<"a","m">>,
    <<"a","n">>, <<"a","n","d">>, <<"a","r","e">>, <<"a","s">>, <<"a","t">>, <<"b","e">>,
    <<"b","e","c","a","u","s","e">>, <<"b","e","e","n">>, <<"b","e","f","o","r","e">>,
    <<"b","e","i","n","g">>, <<"b","e","l","o","w">>, <<"b","e","t","w","e","e","n">>,
    <<"b","o","t","h">>, <<"b","u","t">>, <<"b","y">>, <<"c","a","n">>, <<"c","o","u","l","d">>,
    <<"d","i","d">>, <<"d","o">>, <<"d","o","e","s">>, <<"d","o","w","n">>,
    <<"d","u","r","i","n","g">>, <<"e","a","c","h">>, <<"e","v","e","r","y">>, <<"f","e","w">>,
    <<"f","o","r">>, <<"f","r","o","m">>, <<"h","a","d">>, <<"h","a","s">>, <<"h","a","v","e">>,
    <<"h","e">>, <<"h","e","r">>, <<"h","e","r","e">>, <<"h","e","r","s">>, <<"h","i","m">>,
    <<"h","i","s">>, <<"h","o","w">>, <<"i">>, <<"i","f">>, <<"i","n">>, <<"i","n","t","o">>,
    <<"i","s">>, <<"i","t">>, <<"i","t","s">>, <<"j","u","s","t">>, <<"m","a","y">>, <<"m","e">>,
    <<"m","i","g","h","t">>, <<"m","i","n","e">>, <<"m","o","r","e">>, <<"m","o","s","t">>,
    <<"m","u","s","t">>, <<"m","y">>, <<"n","o">>, <<"n","o","r">>, <<"n","o","t">>,
    <<"n","o","w">>, <<"o","f">>, <<"o","f","f">>, <<"o","n">>, <<"o","n","l","y">>, <<"o","r">>,
    <<"o","t","h","e","r">>, <<"o","u","r">>, <<"o","u","r","s">>, <<"o","u","t">>,
    <<"o","v","e","r">>, <<"o","w","n">>, <<"s","a","m","e">>, <<"s","h","a","l","l">>,
    <<"s","h","e">>, <<"s","h","o","u","l","d">>, <<"s","o">>, <<"s","o","m","e">>,
    <<"s","u","c","h">>, <<"t","h","a","n">>, <<"t","h","a","t">>, <<"t","h","e">>,
    <<"t","h","e","i","r">>, <<"t","h","e","i","r","s">>, <<"t","h","e","m">>,
    <<"t","h","e","n">>, <<"t","h","e","r","e">>, <<"t","h","e","s","e">>, <<"t","h","e","y">>,
    <<"t","h","i","s">>, <<"t","h","o","s","e">>, <<"t","h","r","o","u","g","h">>, <<"t","o">>,
    <<"t","o","o">>, <<"u","n","d","e","r">>, <<"u","n","t","i","l">>, <<"u","p">>, <<"u","s">>,
    <<"v","e","r","y">>, <<"w","a","s">>, <<"w","e">>, <<"w","e","r","e">>, <<"w","h","a","t">>,
    <<"w","h","e","n">>, <<"w","h","e","r","e">>, <<"w","h","i","c","h">>,
    <<"w","h","i","l","e">>, <<"w","h","o">>, <<"w","h","o","m">>, <<"w","h","y">>,
    <<"w","i","l","l">>, <<"w","i","t","h">>, <<"w","o","u","l","d">>, <<"y","o","u">>,
    <<"y","o","u","r">>, <<"y","o","u","r","s">> }

ENGLISH_COMPLEX_SUFFIXES ==
  << <<"t","i","o","n">>, <<"s","i","o","n">>, <<"n","e","s","s">>, <<"m","e","n","t">>,
     <<"a","b","l","e">>, <<"i","b","l","e">>, <<"f","u","l">>, <<"l","e","s","s">>,
     <<"o","u","s">>, <<"i","v","e">>, <<"i","t","y">>, <<"i","s","m">>, <<"i","s","t">>,
     <<"o","l","o","g","y">>, <<"i","c","a","l">>, <<"a","l","l","y">> >>

PORTUGUESE_MARKERS ==
  { <<"a","g","o","r","a">>, <<"a","i","n","d","a">>, <<"a","p","e","n","a","s">>,
    <<"a","q","u","i">>, <<"a","t","eacute">>, <<"c","o","m">>, <<"c","o","m","o">>,
    <<"c","o","n","s","e","g","u","i","m","o","s">>, <<"d","e","p","o","i","s">>,
    <<"d","e","v","e">>, <<"e","l","a">>, <<"e","l","e">>, <<"e","l","e","s">>,
    <<"e","n","t","atilde","o">>, <<"e","s","s","a">>, <<"e","s","s","e">>,
    <<"e","s","t","o","u">>, <<"e","s","t","aacute">>, <<"f","a","z","e","r">>, <<"f","o","i">>,
    <<"i","s","s","o">>, <<"j","aacute">>, <<"m","a","i","s">>, <<"m","a","s">>,
    <<"m","u","i","t","o">>, <<"n","o","s","s","o">>, <<"n","atilde","o">>, <<"n","oacute","s">>,
    <<"o","n","d","e">>, <<"p","a","r","a">>, <<"p","o","d","e">>,
    <<"p","o","d","e","m","o","s">>, <<"p","o","r">>, <<"p","o","r","q","u","e">>,
    <<"p","r","e","c","i","s","a","m","o","s">>, <<"q","u","a","n","d","o">>, <<"q","u","e">>,
    <<"s","e","m","p","r","e">>, <<"s","e","r","i","a">>, <<"s","e","u">>,
    <<"s","o","b","r","e">>, <<"s","u","a">>, <<"s","atilde","o">>,
    <<"t","a","m","b","eacute","m">>, <<"t","e","m">>, <<"t","e","m","o","s">>,
    <<"t","i","n","h","a">>, <<"u","m","a">>, <<"v","a","i">>, <<"v","o","c","ecirc">>,
    <<"v","o","u">> }

ENGLISH_MARKERS ==
  { <<"a","b","o","u","t">>, <<"a","n","d">>, <<"b","e","c","a","u","s","e">>,
    <<"b","e","e","n">>, <<"b","u","t">>, <<"c","a","n">>, <<"c","o","u","l","d">>,
    <<"f","i","n","d">>, <<"f","i","r","s","t">>, <<"f","o","r">>, <<"f","r","o","m">>,
    <<"g","o","i","n","g">>, <<"h","a","v","e">>, <<"h","i","s">>, <<"i","t","s">>,
    <<"k","n","o","w">>, <<"m","a","k","e">>, <<"m","o","r","e">>, <<"n","e","e","d">>,
    <<"n","o","t">>, <<"n","o","w">>, <<"p","e","o","p","l","e">>, <<"r","e","a","l","l","y">>,
    <<"s","h","o","u","l","d">>, <<"t","h","a","n">>, <<"t","h","a","t">>, <<"t","h","e">>,
    <<"t","h","e","i","r">>, <<"t","h","e","r","e">>, <<"t","h","e","s","e">>,
    <<"t","h","e","y">>, <<"t","h","i","n","k">>, <<"t","h","i","s">>, <<"w","a","n","t">>,
    <<"w","a","y">>, <<"w","e","r","e">>, <<"w","h","a","t">>, <<"w","h","e","n">>,
    <<"w","h","i","c","h">>, <<"w","h","o">>, <<"w","i","l","l">>, <<"w","i","t","h">>,
    <<"w","o","u","l","d">>, <<"y","o","u">> }

COMPLEX_WORD_MIN_LENGTH == 10


(***************************************************************************)
(* Characters.                                                             *)
(***************************************************************************)
ASCII_LOWER ==
  { "a","b","c","d","e","f","g","h","i","j","k","l","m","n","o","p","q","r","s","t","u","v",
    "w","x","y","z" }

ASCII_UPPER_SEQ ==
  << "A","B","C","D","E","F","G","H","I","J","K","L","M","N","O","P","Q","R","S","T","U","V",
     "W","X","Y","Z","Aacute","Eacute","Atilde","Ccedil" >>

ASCII_LOWER_SEQ ==
  << "a","b","c","d","e","f","g","h","i","j","k","l","m","n","o","p","q","r","s","t","u","v",
     "w","x","y","z","aacute","eacute","atilde","ccedil" >>

DIGITS == { "0","1","2","3","4","5","6","7","8","9" }

\* The character class of the word pattern, [a-z...], of _extract_words.
WORD_PATTERN_CHARS == ASCII_LOWER \cup PORTUGUESE_VOWELS \cup { "ccedil" }

\* The accented-character class counted by detect_language.
PT_ACCENT_CHARS == { "aacute","eacute","iacute","oacute","uacute","agrave","acirc","ecirc","ocirc","atilde",
    "otilde","ccedil" }

\* Letters that are word characters of the regex engine but outside the word pattern.
NON_PATTERN_LETTERS == { "ntilde", "yacute" }

\* str.lower() of one character, as a table over the upper-case letters.
LOWER_OF ==
  [c \in { ASCII_UPPER_SEQ[i] : i \in 1..Len(ASCII_UPPER_SEQ) } |->
     ASCII_LOWER_SEQ[CHOOSE i \in 1..Len(ASCII_UPPER_SEQ) : ASCII_UPPER_SEQ[i] = c]]

Lower(c) == IF c \in DOMAIN LOWER_OF THEN LOWER_OF[c] ELSE c

\* str.lower() of a string.
LowerStr(s) == [i \in 1..Len(s) |-> Lower(s[i])]

\* \w of the regex engine: letters, digits and the underscore.
WORD_CHARS ==
  WORD_PATTERN_CHARS \cup NON_PATTERN_LETTERS \cup DIGITS \cup {"_"} \cup DOMAIN LOWER_OF

IsWordChar(c) == c \in WORD_CHARS

\* \s of the regex engine and of str.strip / str.split.
IsSpace(c) == c \in { " ", "\n", "\t" }

(***************************************************************************)
(* Arithmetic helpers.                                                     *)
(***************************************************************************)
Max(a, b) == IF a >= b THEN a ELSE b

Min(a, b) == IF a <= b THEN a ELSE b

\* round(n / d) for d > 0: to the nearest integer, a tie to the even one
\* (Python's round).
RoundDiv(n, d) ==
  LET q == n \div d
      r == n - q * d
  IN  IF 2 * r < d THEN q
      ELSE IF 2 * r > d THEN q + 1
      ELSE IF q % 2 = 0 THEN q ELSE q + 1

RECURSIVE SumSeq(_)
SumSeq(s) == IF s = <<>> THEN 0 ELSE s[1] + SumSeq(Tail(s))

RECURSIVE MaxSeq(_)
MaxSeq(s) == IF Len(s) = 1 THEN s[1] ELSE Max(s[1], MaxSeq(Tail(s)))

\* The set of elements of a sequence: set(words).
Range(s) == { s[i] : i \in 1..Len(s) }

(***************************************************************************)
(* _extract_words: re.findall(r'\b[a-z...]+\b', text.lower()).  A match    *)
(* starts and ends at a word boundary, so the matches are the maximal runs *)
(* of word characters all of whose characters are in the word pattern.     *)
(***************************************************************************)
RECURSIVE ExtractFrom(_, _, _, _, _)
ExtractFrom(s, i, run, ok, acc) ==
  IF i > Len(s)
  THEN IF run # <<>> /\ ok THEN Append(acc, run) ELSE acc
  ELSE IF IsWordChar(s[i])
       THEN ExtractFrom(s, i + 1, Append(run, s[i]), ok /\ s[i] \in WORD_PATTERN_CHARS, acc)
       ELSE ExtractFrom(s, i + 1, <<>>, TRUE,
                        IF run # <<>> /\ ok THEN Append(acc, run) ELSE acc)

_extract_words(t) == ExtractFrom(LowerStr(t), 1, <<>>, TRUE, <<>>)

(***************************************************************************)
(* Syllable estimator of the service.                                      *)
(***************************************************************************)
RECURSIVE PtSyllablesFrom(_, _, _, _)
PtSyllablesFrom(word, i, prev_is_vowel, syllables) ==
  IF i > Len(word) THEN syllables
  ELSE LET is_vowel == word[i] \in PORTUGUESE_VOWELS
       IN  PtSyllablesFrom(word, i + 1, is_vowel,
                           IF is_vowel /\ ~prev_is_vowel THEN syllables + 1 ELSE syllables)

_count_syllables_portuguese(word) == Max(1, PtSyllablesFrom(word, 1, FALSE, 0))

RECURSIVE EnSyllablesFrom(_, _, _, _)
EnSyllablesFrom(word, i, prev_is_vowel, syllables) ==
  IF i > Len(word) THEN syllables
  ELSE LET is_vowel == word[i] \in ENGLISH_VOWELS
       IN  IF word[i] = "e" /\ i = Len(word) /\ syllables > 0
           THEN EnSyllablesFrom(word, i + 1, prev_is_vowel, syllables)
           ELSE EnSyllablesFrom(word, i + 1, is_vowel,
                                IF is_vowel /\ ~prev_is_vowel
                                THEN syllables + 1 ELSE syllables)

_count_syllables_english(w) ==
  LET word == LowerStr(w)
      n == Len(word)
      syllables == EnSyllablesFrom(word, 1, FALSE, 0)
      le == /\ n > 2
            /\ word[n - 1] = "l" /\ word[n] = "e"
            /\ word[n - 2] \notin ENGLISH_VOWELS
  IN  Max(1, IF le THEN syllables + 1 ELSE syllables)

\* word.lower().strip(), then re.sub(r'[^\w]', '', word).
count_syllables(w, lang) ==
  LET word == SelectSeq(LowerStr(w), IsWordChar)
  IN  IF word = <<>> THEN 0
      ELSE IF lang = "en-US" THEN _count_syllables_english(word)
      ELSE _count_syllables_portuguese(word)

count_syllables_text(t, lang) ==
  LET words == _extract_words(t)
  IN  SumSeq([i \in 1..Len(words) |-> count_syllables(words[i], lang)])

(***************************************************************************)
(* detect_language.  The scores are kept as exact fractions over the       *)
(* common denominator ScoreDen(text).                                      *)
(* confidence, portuguese_score and english_score are in hundredths.       *)
(***************************************************************************)
LanguageDetection(lang, conf, pt, en) ==
  [detected_language |-> lang, confidence |-> conf,
   portuguese_score |-> pt, english_score |-> en]

RECURSIVE GCD(_, _)
GCD(a, b) == IF b = 0 THEN a ELSE GCD(b, a % b)

\* matches / len(MARKERS) * 100 as a fraction in lowest terms: MUL / DEN per
\* matched marker.
PT_MUL == 100 \div GCD(100, Cardinality(PORTUGUESE_MARKERS))

PT_DEN == Cardinality(PORTUGUESE_MARKERS) \div GCD(100, Cardinality(PORTUGUESE_MARKERS))

EN_MUL == 100 \div GCD(100, Cardinality(ENGLISH_MARKERS))

EN_DEN == Cardinality(ENGLISH_MARKERS) \div GCD(100, Cardinality(ENGLISH_MARKERS))

\* The common denominator of pt_score and en_score.
ScoreDen(t) == PT_DEN * EN_DEN * Max(Len(t), 1)

\* len(re.findall(r'[accented]', text.lower()))
PtChars(t) == Cardinality({ i \in 1..Len(t) : Lower(t[i]) \in PT_ACCENT_CHARS })

\* pt_score * ScoreDen(t): marker matches plus the accented-character bonus
\* min(pt_chars / max(len(text), 1) * 100, 5).
PtScoreNum(t, words_set) ==
  LET pt_matches == Cardinality(words_set \cap PORTUGUESE_MARKERS)
      len == Max(Len(t), 1)
      bonus_len == Min(PtChars(t) * 100, 5 * len)
  IN  pt_matches * PT_MUL * EN_DEN * len + bonus_len * PT_DEN * EN_DEN

\* en_score * ScoreDen(t).
EnScoreNum(t, words_set) ==
  LET en_matches == Cardinality(words_set \cap ENGLISH_MARKERS)
  IN  en_matches * EN_MUL * PT_DEN * Max(Len(t), 1)

\* round(min(win / (pt_score + en_score + 0.1), 0.99), 2), in hundredths.
Confidence(win, pt, en, den) ==
  LET num == 10 * win
      d == 10 * pt + 10 * en + den
  IN  IF 100 * num >= 99 * d THEN 99 ELSE RoundDiv(100 * num, d)

\* Mutant: a score equal to the threshold already wins.
DecideAtThreshold(pt, en, den) ==
  IF pt > en /\ pt >= 5 * den
  THEN LanguageDetection("pt-BR", Confidence(pt, pt, en, den),
                         RoundDiv(100 * pt, den), RoundDiv(100 * en, den))
  ELSE IF en > pt /\ en >= 5 * den
  THEN LanguageDetection("en-US", Confidence(en, pt, en, den),
                         RoundDiv(100 * pt, den), RoundDiv(100 * en, den))
  ELSE LanguageDetection("pt-BR", 50, RoundDiv(100 * pt, den), RoundDiv(100 * en, den))

\* Mutant: the English branch takes its confidence from the Portuguese score.
DecideEnglishWithPtScore(pt, en, den) ==
  IF pt > en /\ pt > 5 * den
  THEN LanguageDetection("pt-BR", Confidence(pt, pt, en, den),
                         RoundDiv(100 * pt, den), RoundDiv(100 * en, den))
  ELSE IF en > pt /\ en > 5 * den
  THEN LanguageDetection("en-US", Confidence(pt, pt, en, den),
                         RoundDiv(100 * pt, den), RoundDiv(100 * en, den))
  ELSE LanguageDetection("pt-BR", 50, RoundDiv(100 * pt, den), RoundDiv(100 * en, den))

\* The decision rule on the two scores (fractions over den).
Decide(pt, en, den) ==
  IF pt > en /\ pt > 5 * den
  THEN LanguageDetection("pt-BR", Confidence(pt, pt, en, den),
                         RoundDiv(100 * pt, den), RoundDiv(100 * en, den))
  ELSE IF en > pt /\ en > 5 * den
  THEN LanguageDetection("en-US", Confidence(en, pt, en, den),
                         RoundDiv(100 * pt, den), RoundDiv(100 * en, den))
  ELSE LanguageDetection("pt-BR", 50, RoundDiv(100 * pt, den), RoundDiv(100 * en, den))

\* Mutant: no early return for a text without words.
DetectLanguageNoEmptyGuard(t) ==
  LET words_set == Range(_extract_words(t))
  IN  Decide(PtScoreNum(t, words_set), EnScoreNum(t, words_set), ScoreDen(t))

detect_language(t) ==
  LET words == _extract_words(t)
      words_set == Range(words)
  IN  IF Len(words) = 0 THEN LanguageDetection("unknown", 0, 0, 0)
      ELSE Decide(PtScoreNum(t, words_set), EnScoreNum(t, words_set), ScoreDen(t))

(***************************************************************************)
(* Class constants of SpeechAnalysisService.  Rates are per minute, pause  *)
(* thresholds in 1/100 s.                                                  *)
(***************************************************************************)
SPEECH_RATE_THRESHOLDS ==
  [l \in {"pt-BR", "en-US"} |->
     IF l = "pt-BR" THEN [slow |-> 180, fast |-> 250] ELSE [slow |-> 200, fast |-> 280]]

IDEAL_SPEAKING_RATE ==
  [l \in {"pt-BR", "en-US"} |->
     IF l = "pt-BR" THEN [min |-> 140, max |-> 170] ELSE [min |-> 150, max |-> 180]]

MIN_PAUSE_DURATION == 25

LONG_PAUSE_THRESHOLD == 200

\* dict.get(lang, table['pt-BR'])
GetOrPt(table, lang) == IF lang \in DOMAIN table THEN table[lang] ELSE table["pt-BR"]

(***************************************************************************)
(* Segments.  The optional segment list is [given, list]: given = FALSE is *)
(* None.  A segment is a dict; a key it lacks reads as 0.                  *)
(***************************************************************************)
\* seg.get(key, 0)
Get(seg, key) == IF key \in DOMAIN seg THEN seg[key] ELSE 0

\* The gaps segments[i].start - segments[i-1].end for i in range(1, len), in
\* order; none when the list is None, empty or has one element.
Gaps(segs) ==
  IF segs.given /\ Len(segs.list) > 1
  THEN [k \in 1..(Len(segs.list) - 1) |->
          Get(segs.list[k + 1], "start") - Get(segs.list[k], "end")]
  ELSE <<>>

\* Mutant: a gap equal to the threshold is not kept.
GapsAbove(segs, threshold) == SelectSeq(Gaps(segs), LAMBDA g : g > threshold)

\* The gaps the loops keep: those >= threshold.
GapsAtLeast(segs, threshold) == SelectSeq(Gaps(segs), LAMBDA g : g >= threshold)

(***************************************************************************)
(* analyze_speech_rate.  Rates in tenths, durations in 1/100 s.            *)
(***************************************************************************)
SpeechRateMetrics(sr, ar, wpm, td, sd, pd, cls) ==
  [speaking_rate_spm |-> sr, articulation_rate_spm |-> ar, words_per_minute |-> wpm,
   total_duration_seconds |-> td, speech_duration_seconds |-> sd,
   pause_duration_seconds |-> pd, classification |-> cls]

(***************************************************************************)
(* The articulation rate is the binary64 value of                          *)
(* (total_syllables / speech_duration) * 60, two roundings.  Away from a   *)
(* threshold the roundings cannot change the side the rate falls on (the   *)
(* exact rate differs from the threshold by at least one part in           *)
(* threshold * speech_duration); where the exact rate equals the threshold *)
(* they decide it.  With x = a / b the exact quotient in lowest terms and  *)
(* 2^e <= x < 2^(e+1), the quotient is rounded to m * 2^-k, k = 52 - e,    *)
(* and the product 60 * m is rounded to a multiple of 2^t, t being the     *)
(* bits it has above 53.  The operands of the division are taken as exact, *)
(* as they are for durations that are multiples of 1/4 s.                  *)
(***************************************************************************)
\* The e with 2^e <= a / b < 2^(e + 1).
RECURSIVE FloorLog2(_, _)
FloorLog2(a, b) ==
  IF a >= 2 * b THEN FloorLog2(a, 2 * b) + 1
  ELSE IF a < b THEN FloorLog2(2 * a, b) - 1
  ELSE 0

\* a * 2^k mod n.
RECURSIVE Pow2Mod(_, _, _)
Pow2Mod(a, k, n) == IF k = 0 THEN a % n ELSE (2 * Pow2Mod(a, k - 1, n)) % n

\* The sign of fl(fl(x) * factor) - x * factor for x = value / factor > 0: the
\* side of the integer `value` on which the rate computed as
\* (value / factor) * factor falls.
RoundTripSign(value, factor) ==
  LET g == GCD(value, factor)
      a == value \div g
      b == factor \div g
      e == FloorLog2(a, b)
      k == 52 - e
      rem == Pow2Mod(a, k, b)
      \* round to nearest, ties to the even mantissa
      up == IF 2 * rem < b THEN FALSE
            ELSE IF 2 * rem > b THEN TRUE
            ELSE Pow2Mod(a, k, 2 * b) >= b
      \* factor * (m - x * 2^k), an integer
      excess == IF up THEN (factor * (b - rem)) \div b ELSE 0 - (factor * rem) \div b
      t == FloorLog2(value, 1) - e
      half == 2 ^ (t - 1)
  IN  IF excess > half THEN 1 ELSE IF 0 - excess > half THEN -1 ELSE 0

\* The side of the threshold on which the computed rate falls: -1 below, 0 on it,
\* 1 above.  Durations are in 1/100 s.
RateVersus(total_syllables, speech_duration, threshold) ==
  IF total_syllables * 6000 < threshold * speech_duration THEN -1
  ELSE IF total_syllables * 6000 > threshold * speech_duration THEN 1
  ELSE RoundTripSign(threshold, 60)

\* The pace class of syllables / speech_duration * 60 against the thresholds.
Classify(total_syllables, speech_duration, thresholds) ==
  IF RateVersus(total_syllables, speech_duration, thresholds.slow) < 0 THEN "slow"
  ELSE IF RateVersus(total_syllables, speech_duration, thresholds.fast) > 0 THEN "fast"
  ELSE "medium"

\* max(0.1, total_duration - pause_duration)
SpeechDuration(dur, pause_duration) == Max(10, dur - pause_duration)

\* if total_duration <= 0: total_duration = 1.0
NormalizeDuration(dur) == IF dur <= 0 THEN 100 ELSE dur

analyze_speech_rate(t, dur0, lang, segs) ==
  LET total_words == Len(_extract_words(t))
      total_syllables == count_syllables_text(t, lang)
      dur == NormalizeDuration(dur0)
      pause_duration == SumSeq(GapsAtLeast(segs, MIN_PAUSE_DURATION))
      speech_duration == SpeechDuration(dur, pause_duration)
      thresholds == GetOrPt(SPEECH_RATE_THRESHOLDS, lang)
  IN  SpeechRateMetrics(RoundDiv(total_syllables * 60000, dur),
                        RoundDiv(total_syllables * 60000, speech_duration),
                        RoundDiv(total_words * 60000, dur),
                        dur, speech_duration, pause_duration,
                        Classify(total_syllables, speech_duration, thresholds))

(***************************************************************************)
(* analyze_pauses.  Durations in 1/100 s, pauses_per_minute in tenths,     *)
(* pause_ratio in thousandths.                                             *)
(***************************************************************************)
PauseMetrics(n, total, avg, longest, ppm, ratio) ==
  [total_pauses |-> n, total_pause_duration |-> total, average_pause_duration |-> avg,
   longest_pause |-> longest, pauses_per_minute |-> ppm, pause_ratio |-> ratio]

\* pause_ratio = total_pause_duration / total_duration when total_duration > 0.
PauseRatio(total_pause_duration, dur) ==
  IF dur > 0 THEN RoundDiv(total_pause_duration * 1000, dur) ELSE 0

analyze_pauses(dur, segs) ==
  LET pauses == GapsAtLeast(segs, MIN_PAUSE_DURATION)
      total_pauses == Len(pauses)
      total_pause_duration == SumSeq(pauses)
  IN  PauseMetrics(total_pauses,
                   total_pause_duration,
                   IF total_pauses > 0 THEN RoundDiv(total_pause_duration, total_pauses) ELSE 0,
                   IF total_pauses > 0 THEN MaxSeq(pauses) ELSE 0,
                   IF dur > 0 THEN RoundDiv(total_pauses * 60000, dur) ELSE 0,
                   PauseRatio(total_pause_duration, dur))

(***************************************************************************)
(* analyze_vocabulary.  Ratios in thousandths, average_word_length in      *)
(* hundredths.                                                             *)
(***************************************************************************)
VocabularyMetrics(tw, uw, ttr, awl, cwc, cwr, fwc, fwr, ld) ==
  [total_words |-> tw, unique_words |-> uw, vocabulary_richness |-> ttr,
   average_word_length |-> awl, complex_words_count |-> cwc, complex_words_ratio |-> cwr,
   filler_words_count |-> fwc, filler_words_ratio |-> fwr, lexical_density |-> ld]

\* word.endswith(suffix)
EndsWith(word, suffix) ==
  /\ Len(suffix) <= Len(word)
  /\ SubSeq(word, Len(word) - Len(suffix) + 1, Len(word)) = suffix

IsComplex(word, complex_suffixes) ==
  \/ Len(word) >= COMPLEX_WORD_MIN_LENGTH
  \/ \E k \in 1..Len(complex_suffixes) : EndsWith(word, complex_suffixes[k])

\* Mutant: the distinct characters are counted instead of the distinct words.
UniqueCharacters(words) == Cardinality(UNION { Range(words[i]) : i \in 1..Len(words) })

\* len(set(words))
UniqueWords(words) == Cardinality(Range(words))

analyze_vocabulary(t, lang) ==
  LET words == _extract_words(t)
      total_words == Len(words)
      filler_words == IF lang = "en-US" THEN ENGLISH_FILLERS ELSE PORTUGUESE_FILLERS
      function_words ==
        IF lang = "en-US" THEN ENGLISH_FUNCTION_WORDS ELSE PORTUGUESE_FUNCTION_WORDS
      complex_suffixes ==
        IF lang = "en-US" THEN ENGLISH_COMPLEX_SUFFIXES ELSE PORTUGUESE_COMPLEX_SUFFIXES
      unique_words == UniqueWords(words)
      total_length == SumSeq([i \in 1..Len(words) |-> Len(words[i])])
      \* len([word for word in words if is_complex]) and sum(1 for word in words if ...)
      complex_words_count ==
        Cardinality({ i \in 1..Len(words) : IsComplex(words[i], complex_suffixes) })
      filler_count == Cardinality({ i \in 1..Len(words) : words[i] \in filler_words })
      content_words == Cardinality({ i \in 1..Len(words) : words[i] \notin function_words })
  IN  IF total_words = 0 THEN VocabularyMetrics(0, 0, 0, 0, 0, 0, 0, 0, 0)
      ELSE VocabularyMetrics(total_words,
                             unique_words,
                             RoundDiv(unique_words * 1000, total_words),
                             RoundDiv(total_length * 100, total_words),
                             complex_words_count,
                             RoundDiv(complex_words_count * 1000, total_words),
                             filler_count,
                             RoundDiv(filler_count * 1000, total_words),
                             RoundDiv(content_words * 1000, total_words))

(***************************************************************************)
(* calculate_ttr of utils/metrics: the unrounded ratio, as the exact       *)
(* fraction num / den.                                                     *)
(***************************************************************************)
calculate_ttr(words) ==
  IF words = <<>> THEN [num |-> 0, den |-> 1]
  ELSE [num |-> Cardinality(Range(words)), den |-> Len(words)]

(***************************************************************************)
(* difflib.SequenceMatcher(None, a, b): the number of matched characters.  *)
(* The longest matching block of a region is taken (the one starting       *)
(* earliest in a, then earliest in b), then the regions left and right of  *)
(* it are matched recursively.  Regions are a[alo..ahi-1], b[blo..bhi-1].  *)
(***************************************************************************)
RECURSIVE MatchLen(_, _, _, _, _, _)
MatchLen(a, b, i, j, ahi, bhi) ==
  IF i < ahi /\ j < bhi /\ a[i] = b[j] THEN 1 + MatchLen(a, b, i + 1, j + 1, ahi, bhi)
  ELSE 0

\* find_longest_match: <<besti, bestj, bestsize>>, bestsize = 0 when nothing matches.
FindLongestMatch(a, b, alo, ahi, blo, bhi) ==
  LET pairs == (alo..(ahi - 1)) \X (blo..(bhi - 1))
      size(p) == MatchLen(a, b, p[1], p[2], ahi, bhi)
      best == CHOOSE p \in pairs :
                \A q \in pairs :
                  \/ size(p) > size(q)
                  \/ /\ size(p) = size(q)
                     /\ \/ p[1] < q[1]
                        \/ p[1] = q[1] /\ p[2] <= q[2]
  IN  IF pairs = {} THEN <<alo, blo, 0>> ELSE <<best[1], best[2], size(best)>>

RECURSIVE Matches(_, _, _, _, _, _)
Matches(a, b, alo, ahi, blo, bhi) ==
  LET x == FindLongestMatch(a, b, alo, ahi, blo, bhi)
  IN  IF x[3] = 0 THEN 0
      ELSE x[3] + Matches(a, b, alo, x[1], blo, x[2])
                + Matches(a, b, x[1] + x[3], ahi, x[2] + x[3], bhi)

\* Mutant: the similarity band includes its two ends.
SimilarInclusive(a, b) ==
  LET matches == Matches(a, b, 1, Len(a) + 1, 1, Len(b) + 1)
      total == Len(a) + Len(b)
  IN  4 * matches >= total /\ 20 * matches <= 9 * total

\* 0.5 < SequenceMatcher(None, a, b).ratio() < 0.9, the ratio being
\* 2 * matches / (len(a) + len(b)).
SimilarNotIdentical(a, b) ==
  LET matches == Matches(a, b, 1, Len(a) + 1, 1, Len(b) + 1)
      total == Len(a) + Len(b)
  IN  4 * matches > total /\ 20 * matches < 9 * total

(***************************************************************************)
(* analyze_fluency.  fluency_score in tenths, hesitation_rate in           *)
(* hundredths.                                                             *)
(***************************************************************************)
FluencyMetrics(score, rate, rep, sc, inc) ==
  [fluency_score |-> score, hesitation_rate |-> rate, repetition_count |-> rep,
   self_corrections_count |-> sc, incomplete_sentences |-> inc]

\* Consecutive identical words.
Repetitions(words) == Cardinality({ i \in 2..Len(words) : words[i] = words[i - 1] })

\* Mutant: an identical pair counts as a self-correction too.
SelfCorrectionsCountingIdentical(words) ==
  Cardinality({ i \in 2..Len(words) :
                  \/ words[i] = words[i - 1]
                  \/ SimilarNotIdentical(words[i - 1], words[i]) })

\* Consecutive different words that are similar.
SelfCorrections(words) ==
  Cardinality({ i \in 2..Len(words) :
                  /\ words[i] # words[i - 1]
                  /\ SimilarNotIdentical(words[i - 1], words[i]) })

\* re.split(r'[.!?]', text): the pieces between the sentence marks.
RECURSIVE SplitSentences(_, _, _, _)
SplitSentences(t, i, cur, acc) ==
  IF i > Len(t) THEN Append(acc, cur)
  ELSE IF t[i] \in { ".", "!", "?" }
       THEN SplitSentences(t, i + 1, <<>>, Append(acc, cur))
       ELSE SplitSentences(t, i + 1, Append(cur, t[i]), acc)

\* len(s.strip().split()): the maximal runs of non-space characters.
SplitCount(s) ==
  Cardinality({ i \in 1..Len(s) : ~IsSpace(s[i]) /\ (i = 1 \/ IsSpace(s[i - 1])) })

\* Sentences with fewer than 3 words and some content.
IncompleteSentences(t) ==
  LET sentences == SplitSentences(t, 1, <<>>, <<>>)
  IN  Cardinality({ k \in 1..Len(sentences) :
                      /\ SplitCount(sentences[k]) < 3
                      /\ \E i \in 1..Len(sentences[k]) : ~IsSpace(sentences[k][i]) })

\* round(hesitations / total_duration * 60, 2) when total_duration > 0.
HesitationRate(hesitations, dur) ==
  IF dur > 0 THEN RoundDiv(hesitations * 600000, dur) ELSE 0

\* Mutant: the penalties are applied to a transcript without words too.
FluencyScoreEmptyPenalised(n, repetitions, self_corrections, hesitations, incomplete, dur) ==
  LET d == IF dur > 0 THEN dur ELSE 1
      h == IF dur > 0 THEN hesitations ELSE 0
      den == Max(n, 1) * d
      penalty_num == (repetitions * 20 + self_corrections * 15) * d
                       + h * 30000 * Max(n, 1) + incomplete * 3 * den
      score_num == Max(0, Min(100 * den, 100 * den - penalty_num))
  IN  RoundDiv(10 * score_num, den)

\* round(max(0, min(100, 100 - penalty)), 1) with
\* penalty = rep/n * 20 + sc/n * 15 + hesitation_rate * 5 + incomplete * 3,
\* hesitation_rate = hesitations / dur * 60 unrounded (0 when dur <= 0).
FluencyScore(n, repetitions, self_corrections, hesitations, incomplete, dur) ==
  LET d == IF dur > 0 THEN dur ELSE 1
      h == IF dur > 0 THEN hesitations ELSE 0
      den == Max(n, 1) * d
      penalty_num ==
        IF n > 0
        THEN (repetitions * 20 + self_corrections * 15) * d
               + h * 30000 * n + incomplete * 3 * den
        ELSE 0
      score_num == Max(0, Min(100 * den, 100 * den - penalty_num))
  IN  RoundDiv(10 * score_num, den)

analyze_fluency(t, dur, segs) ==
  LET words == _extract_words(t)
      repetitions == Repetitions(words)
      self_corrections == SelfCorrections(words)
      incomplete == IncompleteSentences(t)
      hesitations == Len(GapsAtLeast(segs, LONG_PAUSE_THRESHOLD))
  IN  FluencyMetrics(FluencyScore(Len(words), repetitions, self_corrections,
                                  hesitations, incomplete, dur),
                     HesitationRate(hesitations, dur),
                     repetitions, self_corrections, incomplete)

(***************************************************************************)
(* Scorer.  Sub-scores in hundredths of a point.                           *)
(***************************************************************************)
\* Mutant: the penalty is not floored at 0.
ScoreSpeechRateNoFloor(sr, lang) ==
  LET wpm == sr.words_per_minute
      ideal == GetOrPt(IDEAL_SPEAKING_RATE, lang)
      distance == IF wpm < ideal.min * 10 THEN ideal.min * 10 - wpm
                  ELSE wpm - ideal.max * 10
  IN  IF ideal.min * 10 <= wpm /\ wpm <= ideal.max * 10 THEN 10000
      ELSE 10000 - distance * 20

\* Mutant: the language argument is left at its default, 'pt-BR'.
ScoreSpeechRateDefaultLanguage(sr, lang) ==
  LET wpm == sr.words_per_minute
      ideal == IDEAL_SPEAKING_RATE["pt-BR"]
      distance == IF wpm < ideal.min * 10 THEN ideal.min * 10 - wpm
                  ELSE wpm - ideal.max * 10
  IN  IF ideal.min * 10 <= wpm /\ wpm <= ideal.max * 10 THEN 10000
      ELSE Max(0, 10000 - distance * 20)

\* Mutant: every language is scored against the en-US band.
ScoreSpeechRateEnglishBand(sr, lang) ==
  LET wpm == sr.words_per_minute
      ideal == IDEAL_SPEAKING_RATE["en-US"]
      distance == IF wpm < ideal.min * 10 THEN ideal.min * 10 - wpm
                  ELSE wpm - ideal.max * 10
  IN  IF ideal.min * 10 <= wpm /\ wpm <= ideal.max * 10 THEN 10000
      ELSE Max(0, 10000 - distance * 20)

_score_speech_rate(sr, lang) ==
  LET wpm == sr.words_per_minute
      ideal == GetOrPt(IDEAL_SPEAKING_RATE, lang)
      distance == IF wpm < ideal.min * 10 THEN ideal.min * 10 - wpm
                  ELSE wpm - ideal.max * 10
  IN  IF ideal.min * 10 <= wpm /\ wpm <= ideal.max * 10 THEN 10000
      ELSE Max(0, 10000 - distance * 20)

\* Mutant: a longest pause of exactly 3.0 s is penalised too.
ScorePausesLongAtThreshold(p) ==
  LET base_score == IF 100 <= p.pause_ratio /\ p.pause_ratio <= 250 THEN 10000
                    ELSE IF p.pause_ratio < 100 THEN 8000
                    ELSE Max(0, 10000 - (p.pause_ratio - 250) * 20)
      penalized == IF p.longest_pause >= 300 THEN base_score - 1000 ELSE base_score
  IN  Max(0, penalized)

_score_pauses(p) ==
  LET base_score == IF 100 <= p.pause_ratio /\ p.pause_ratio <= 250 THEN 10000
                    ELSE IF p.pause_ratio < 100 THEN 8000
                    ELSE Max(0, 10000 - (p.pause_ratio - 250) * 20)
      penalized == IF p.longest_pause > 300 THEN base_score - 1000 ELSE base_score
  IN  Max(0, penalized)

\* Mutant: the richness is weighted 50 like the two ratios.
ScoreVocabularyRichnessWeight50(v) ==
  LET score == 5000 + v.vocabulary_richness * 5
                 + Min(v.complex_words_ratio * 5, 1500)
                 - v.filler_words_ratio * 5
  IN  Max(0, Min(10000, score))

\* Mutant: the complex-word bonus is not capped at 15 points.
ScoreVocabularyUncappedBonus(v) ==
  LET score == 5000 + v.vocabulary_richness * 3
                 + v.complex_words_ratio * 5
                 - v.filler_words_ratio * 5
  IN  Max(0, Min(10000, score))

_score_vocabulary(v) ==
  LET score == 5000 + v.vocabulary_richness * 3
                 + Min(v.complex_words_ratio * 5, 1500)
                 - v.filler_words_ratio * 5
  IN  Max(0, Min(10000, score))

\* rate * 0.25 + pauses * 0.15 + vocabulary * 0.25 + fluency * 0.35, in 1/10000.
WeightedSum(rate, pauses, vocabulary, fluency_score) ==
  rate * 25 + pauses * 15 + vocabulary * 25 + fluency_score * 10 * 35

(***************************************************************************)
(* generate_feedback.  A message is <<language, rule, value>>: the         *)
(* template's language, the rule that appended it and the number the       *)
(* template renders (0 when it renders none).                              *)
(***************************************************************************)
\* Mutant: a rule appends its recommendation whether or not its test holds.
RuleRecommendsAlways(cond, fb, rec) ==
  IF cond THEN [feedback |-> fb, recommendations |-> rec]
  ELSE [feedback |-> <<>>, recommendations |-> rec]

\* The messages and the recommendations of one rule, appended in order.
Rule(cond, fb, rec) == IF cond THEN [feedback |-> fb, recommendations |-> rec]
                       ELSE [feedback |-> <<>>, recommendations |-> <<>>]

RECURSIVE JoinRules(_)
JoinRules(rules) ==
  IF rules = <<>> THEN [feedback |-> <<>>, recommendations |-> <<>>]
  ELSE LET rest == JoinRules(Tail(rules))
       IN  [feedback |-> rules[1].feedback \o rest.feedback,
            recommendations |-> rules[1].recommendations \o rest.recommendations]

generate_feedback(ld, sr, p, v, f) ==
  LET lang == ld.detected_language
      L == IF lang = "en-US" THEN "en" ELSE "pt"
      ideal_rate == GetOrPt(IDEAL_SPEAKING_RATE, lang)
      wpm == sr.words_per_minute
      M(rule, value) == << <<L, rule, value>> >>
  IN  JoinRules(<<
        Rule(TRUE, M("language", ld.confidence), <<>>),
        \* Speech rate
        Rule(sr.classification = "fast", M("pace_fast", 0), M("rec_slow_down", 0)),
        Rule(sr.classification = "slow", M("pace_slow", 0), M("rec_speed_up", 0)),
        Rule(sr.classification \notin {"fast", "slow"}, M("pace_ok", 0), <<>>),
        \* Words per minute
        Rule(wpm < ideal_rate.min * 10, M("wpm_below_ideal", RoundDiv(wpm, 10)), <<>>),
        Rule(wpm >= ideal_rate.min * 10 /\ wpm > ideal_rate.max * 10,
             M("wpm_above_ideal", RoundDiv(wpm, 10)), <<>>),
        Rule(wpm >= ideal_rate.min * 10 /\ wpm <= ideal_rate.max * 10,
             M("wpm_within_ideal", RoundDiv(wpm, 10)), <<>>),
        \* Pauses
        Rule(p.pause_ratio > 300, M("many_pauses", 0), M("rec_reduce_pauses", 0)),
        Rule(p.pause_ratio <= 300 /\ p.pause_ratio < 100
               /\ sr.total_duration_seconds > 1000,
             M("few_pauses", 0), M("rec_strategic_pauses", 0)),
        Rule(p.longest_pause > 300, M("long_pause", RoundDiv(p.longest_pause, 10)), <<>>),
        \* Vocabulary
        Rule(v.vocabulary_richness < 400, M("repetitive_vocabulary", 0),
             M("rec_synonyms", 0)),
        Rule(v.vocabulary_richness >= 400 /\ v.vocabulary_richness > 700,
             M("varied_vocabulary", 0), <<>>),
        Rule(v.filler_words_ratio > 100, M("many_fillers", v.filler_words_count),
             M("rec_reduce_fillers", 0)),
        Rule(v.complex_words_ratio > 150, M("complex_vocabulary", 0), <<>>),
        \* Fluency
        Rule(f.fluency_score >= 800, M("fluency_excellent", 0), <<>>),
        Rule(f.fluency_score < 800 /\ f.fluency_score >= 600, M("fluency_good", 0), <<>>),
        Rule(f.fluency_score < 600, M("fluency_room", 0), <<>>),
        Rule(f.repetition_count > 3, M("repetitions", f.repetition_count),
             M("rec_avoid_repetition", 0)),
        Rule(f.self_corrections_count > 2, M("self_corrections", f.self_corrections_count),
             M("rec_practice", 0))
      >>)

(***************************************************************************)
(* analyze_comprehensive.  The optional hint is [given, value]: given =    *)
(* FALSE is None.  overall_score in tenths.                                *)
(***************************************************************************)
HINTS_PT == { <<"p","t">>, <<"p","t","-","b","r">>,
              <<"p","o","r","t","u","g","u","e","s","e">> }

HINTS_EN == { <<"e","n">>, <<"e","n","-","u","s">>, <<"e","n","g","l","i","s","h">> }

\* Mutant: the hint is compared without lower-casing it.
ResolveLanguageCaseSensitive(t, hint) ==
  IF hint.given /\ hint.value # <<>>
  THEN IF hint.value \in HINTS_PT THEN LanguageDetection("pt-BR", 100, 10000, 0)
       ELSE IF hint.value \in HINTS_EN THEN LanguageDetection("en-US", 100, 0, 10000)
       ELSE detect_language(t)
  ELSE detect_language(t)

\* The language of the call: the hint's when it is recognised, else detected.
ResolveLanguage(t, hint) ==
  IF hint.given /\ hint.value # <<>>
  THEN IF LowerStr(hint.value) \in HINTS_PT THEN LanguageDetection("pt-BR", 100, 10000, 0)
       ELSE IF LowerStr(hint.value) \in HINTS_EN
            THEN LanguageDetection("en-US", 100, 0, 10000)
       ELSE detect_language(t)
  ELSE detect_language(t)

analyze_comprehensive(t, dur, segs, hint) ==
  LET detected_lang == ResolveLanguage(t, hint)
      lang == detected_lang.detected_language
      speech_rate == analyze_speech_rate(t, dur, lang, segs)
      pauses == analyze_pauses(dur, segs)
      vocabulary == analyze_vocabulary(t, lang)
      fluency == analyze_fluency(t, dur, segs)
      fb == generate_feedback(detected_lang, speech_rate, pauses, vocabulary, fluency)
      overall_score == WeightedSum(_score_speech_rate(speech_rate, lang),
                                   _score_pauses(pauses),
                                   _score_vocabulary(vocabulary),
                                   fluency.fluency_score)
  IN  [language |-> detected_lang, speech_rate |-> speech_rate, pauses |-> pauses,
       vocabulary |-> vocabulary, fluency |-> fluency,
       overall_score |-> RoundDiv(overall_score, 1000),
       feedback |-> fb.feedback, recommendations |-> fb.recommendations]

(***************************************************************************)
(* Syllable estimator of utils/text.                                       *)
(***************************************************************************)
\* str.strip(): the string without its leading and trailing white space.
RECURSIVE Strip(_)
Strip(s) ==
  IF s = <<>> THEN s
  ELSE IF IsSpace(s[1]) THEN Strip(Tail(s))
  ELSE IF IsSpace(s[Len(s)]) THEN Strip(SubSeq(s, 1, Len(s) - 1))
  ELSE s

TEXT_PT_VOWELS ==
  { "a","e","i","o","u","aacute","agrave","acirc","atilde","eacute","ecirc","iacute",
    "oacute","ocirc","otilde","uacute" }

TEXT_PT_DIPHTHONGS ==
  { <<"a","i">>, <<"a","u">>, <<"e","i">>, <<"e","u">>, <<"i","u">>, <<"o","i">>,
    <<"o","u">>, <<"u","i">>, <<"atilde","o">>, <<"atilde","e">>, <<"otilde","e">> }

RECURSIVE TextPtSyllablesFrom(_, _, _, _)
TextPtSyllablesFrom(word, i, prev_was_vowel, count) ==
  IF i > Len(word) THEN count
  ELSE IF word[i] \in TEXT_PT_VOWELS
  THEN LET counted == IF prev_was_vowel THEN count ELSE count + 1
       IN  IF i + 1 <= Len(word) /\ <<word[i], word[i + 1]>> \in TEXT_PT_DIPHTHONGS
           THEN TextPtSyllablesFrom(word, i + 2, TRUE, counted)
           ELSE TextPtSyllablesFrom(word, i + 1, TRUE, counted)
  ELSE TextPtSyllablesFrom(word, i + 1, FALSE, count)

\* The count of vowel groups without the floor of one syllable.
TextPtSyllablesNoFloor(w) == TextPtSyllablesFrom(LowerStr(w), 1, FALSE, 0)

text_count_syllables_portuguese(w) ==
  Max(1, TextPtSyllablesFrom(LowerStr(w), 1, FALSE, 0))

\* The words with a fixed count, all of one syllable.
TEXT_EN_EXCEPTIONS ==
  { <<"t","h","e">>, <<"b","e">>, <<"a","r","e">>, <<"w","e","r","e">>,
    <<"h","a","v","e">>, <<"g","i","v","e">>, <<"l","i","v","e">>, <<"l","o","v","e">>,
    <<"m","o","v","e">>, <<"c","o","m","e">> }

TEXT_EN_VOWELS == { "a","e","i","o","u","y" }

RECURSIVE TextEnVowelGroups(_, _, _, _)
TextEnVowelGroups(word, i, prev_was_vowel, count) ==
  IF i > Len(word) THEN count
  ELSE LET is_vowel == word[i] \in TEXT_EN_VOWELS
       IN  TextEnVowelGroups(word, i + 1, is_vowel,
                             IF is_vowel /\ ~prev_was_vowel THEN count + 1 ELSE count)

\* The count before the floor: vowel groups, less a silent final e, plus a
\* consonant + le ending, less an -ed ending other than -ted and -ded.
TextEnAdjusted(word) ==
  LET n == Len(word)
      groups == TextEnVowelGroups(word, 1, FALSE, 0)
      silent_e == IF EndsWith(word, <<"e">>) /\ groups > 1 THEN groups - 1 ELSE groups
      le == IF n > 2 /\ EndsWith(word, <<"l","e">>) /\ word[n - 2] \notin TEXT_EN_VOWELS
            THEN silent_e + 1 ELSE silent_e
  IN  IF /\ EndsWith(word, <<"e","d">>) /\ le > 1
         /\ ~EndsWith(word, <<"t","e","d">>) /\ ~EndsWith(word, <<"d","e","d">>)
      THEN le - 1 ELSE le

text_count_syllables_english(w) ==
  LET word == Strip(LowerStr(w))
  IN  IF word = <<>> THEN 0
      ELSE IF word \in TEXT_EN_EXCEPTIONS THEN 1
      ELSE Max(1, TextEnAdjusted(word))

\* language.startswith("pt"), over the language codes of the model.
StartsWithPt(lang) == lang \in { "pt", "pt-BR" }

text_count_syllables(w, lang) ==
  LET word == Strip(LowerStr(w))
  IN  IF word = <<>> THEN 0
      ELSE IF StartsWithPt(lang) THEN text_count_syllables_portuguese(word)
      ELSE text_count_syllables_english(word)

(***************************************************************************)
(* utils/text: normalize_text, remove_punctuation, tokenize, count_words.  *)
(***************************************************************************)
\* The letters of the model that compose with a following combining tilde
\* ("combtilde") under canonical composition.
NFC_COMPOSED == [a |-> "atilde", o |-> "otilde", n |-> "ntilde", A |-> "Atilde"]

\* unicodedata.normalize("NFC", text).
RECURSIVE NFC(_)
NFC(s) ==
  IF Len(s) < 2 THEN s
  ELSE IF s[2] = "combtilde" /\ s[1] \in DOMAIN NFC_COMPOSED
       THEN <<NFC_COMPOSED[s[1]]>> \o NFC(SubSeq(s, 3, Len(s)))
       ELSE <<s[1]>> \o NFC(Tail(s))

\* re.sub(r"\s+", " ", s): every run of white space becomes one blank.
RECURSIVE CollapseSpaces(_, _)
CollapseSpaces(s, in_run) ==
  IF s = <<>> THEN s
  ELSE IF IsSpace(s[1])
       THEN (IF in_run THEN <<>> ELSE <<" ">>) \o CollapseSpaces(Tail(s), TRUE)
       ELSE <<s[1]>> \o CollapseSpaces(Tail(s), FALSE)

normalize_text(t) ==
  IF t = <<>> THEN <<>> ELSE Strip(CollapseSpaces(LowerStr(NFC(t)), FALSE))

\* re.sub(r"[^\w\s']", "", text): word characters, white space and
\* apostrophes stay.
KeptByRemovePunctuation(c) == IsWordChar(c) \/ IsSpace(c) \/ c = "'"

remove_punctuation(t) == SelectSeq(t, KeptByRemovePunctuation)

\* str.split(): the maximal runs of characters that are not white space.
RECURSIVE SplitWords(_, _, _, _)
SplitWords(s, i, cur, acc) ==
  IF i > Len(s) THEN (IF cur # <<>> THEN Append(acc, cur) ELSE acc)
  ELSE IF IsSpace(s[i])
       THEN SplitWords(s, i + 1, <<>>, IF cur # <<>> THEN Append(acc, cur) ELSE acc)
       ELSE SplitWords(s, i + 1, Append(cur, s[i]), acc)

\* tokenize(text) with remove_stopwords = False.
tokenize(t) == SplitWords(remove_punctuation(normalize_text(t)), 1, <<>>, <<>>)

count_words(t) == Len(tokenize(t))

(***************************************************************************)
(* Inputs of the calls.                                                    *)
(***************************************************************************)
MaxPieces == 2

MaxSegments == 2

\* All sequences over S of length at most n.
SeqsUpTo(S, n) == UNION { [1..k -> S] : k \in 0..n }

RECURSIVE Flatten(_)
Flatten(pieces) == IF pieces = <<>> THEN <<>> ELSE pieces[1] \o Flatten(Tail(pieces))

\* Transcript pieces: "the the and that ", "Que nao para. " (with a-tilde), "42 ".
CORE_PIECES ==
  { <<"t","h","e"," ","t","h","e"," ","a","n","d"," ","t","h","a","t"," ">>,
    <<"Q","u","e"," ","n","atilde","o"," ","p","a","r","a","."," ">>,
    <<"4","2"," ">> }

CoreTexts == { Flatten(p) : p \in SeqsUpTo(CORE_PIECES, MaxPieces) }

\* Total durations, in 1/100 s: negative, zero, 0.05 s, 1.5 s, 12 s.
DURATIONS == { -100, 0, 5, 150, 1200 }

\* Segments: {0,2}, {2.5,5}, {5.24,6}, {9,10}.
SEGMENTS ==
  { [start |-> 0, end |-> 200], [start |-> 250, end |-> 500],
    [start |-> 524, end |-> 600], [start |-> 900, end |-> 1000] }

NoSegments == [given |-> FALSE, list |-> <<>>]

SegmentLists ==
  {NoSegments} \cup { [given |-> TRUE, list |-> l] : l \in SeqsUpTo(SEGMENTS, MaxSegments) }

NoHint == [given |-> FALSE, value |-> <<>>]

\* Hints: None, "", "PT", "English", "fr".
LANGUAGE_HINTS ==
  {NoHint} \cup
  { [given |-> TRUE, value |-> h] :
      h \in { <<>>, <<"P","T">>, <<"E","n","g","l","i","s","h">>, <<"f","r">> } }

\* Transcript pieces for the text analyzers: "the quick brown fox ",
\* "and that were there", "the and that ", "que nao para ", "fox fox ", "voce ",
\* "42 ", "acao " (with their accents).
TEXT_PIECES ==
  { <<"t","h","e"," ","q","u","i","c","k"," ","b","r","o","w","n"," ","f","o","x"," ">>,
    <<"a","n","d"," ","t","h","a","t"," ","w","e","r","e"," ","t","h","e","r","e">>,
    <<"t","h","e"," ","a","n","d"," ","t","h","a","t"," ">>,
    <<"q","u","e"," ","n","atilde","o"," ","p","a","r","a"," ">>,
    <<"f","o","x"," ","f","o","x"," ">>,
    <<"v","o","c","ecirc"," ">>,
    <<"4","2"," ">>,
    <<"a","ccedil","atilde","o"," ">> }

Texts == { Flatten(p) : p \in SeqsUpTo(TEXT_PIECES, MaxPieces) }

\* Texts for the timing analyzers: the empty text and the core pieces.
TimingTexts == { <<>> } \cup CORE_PIECES

\* Segments for the timing analyzers: also a dict without 'end', which starts
\* 0.25 s after {0,2} ends, and a segment that ends before it starts.
TIMING_SEGMENTS ==
  SEGMENTS \cup { [start |-> 225], [start |-> 700, end |-> 650] }

TimingSegmentLists ==
  {NoSegments} \cup
  { [given |-> TRUE, list |-> l] : l \in SeqsUpTo(TIMING_SEGMENTS, MaxSegments) }

\* The language argument of the analyzers: what analyze_comprehensive passes.
LANGUAGES == { "pt-BR", "en-US", "unknown" }

NoResult == [op |-> "none"]

\* A local or an argument that is not bound.
NoValue == [none |-> TRUE]

(***************************************************************************)
(* The state that calls share: the service instance (its class constants   *)
(* and its instance attributes, of which __init__ sets none) and the       *)
(* module-level tables.                                                    *)
(***************************************************************************)
SERVICE ==
  [SPEECH_RATE_THRESHOLDS |-> SPEECH_RATE_THRESHOLDS,
   IDEAL_SPEAKING_RATE |-> IDEAL_SPEAKING_RATE,
   MIN_PAUSE_DURATION |-> MIN_PAUSE_DURATION,
   LONG_PAUSE_THRESHOLD |-> LONG_PAUSE_THRESHOLD,
   attributes |-> <<>>]

MODULE_TABLES ==
  [PORTUGUESE_VOWELS |-> PORTUGUESE_VOWELS,
   PORTUGUESE_FILLERS |-> PORTUGUESE_FILLERS,
   PORTUGUESE_FUNCTION_WORDS |-> PORTUGUESE_FUNCTION_WORDS,
   PORTUGUESE_COMPLEX_SUFFIXES |-> PORTUGUESE_COMPLEX_SUFFIXES,
   ENGLISH_VOWELS |-> ENGLISH_VOWELS,
   ENGLISH_FILLERS |-> ENGLISH_FILLERS,
   ENGLISH_FUNCTION_WORDS |-> ENGLISH_FUNCTION_WORDS,
   ENGLISH_COMPLEX_SUFFIXES |-> ENGLISH_COMPLEX_SUFFIXES,
   PORTUGUESE_MARKERS |-> PORTUGUESE_MARKERS,
   ENGLISH_MARKERS |-> ENGLISH_MARKERS,
   COMPLEX_WORD_MIN_LENGTH |-> COMPLEX_WORD_MIN_LENGTH]

\* No call is in progress.
NoCalls == <<>>


(***************************************************************************)
(* The service as a state machine: the caller holds the arguments of a     *)
(* call, the call runs to completion and leaves its result.                *)
(***************************************************************************)
Init ==
  /\ text \in CoreTexts
  /\ total_duration \in DURATIONS
  /\ segments \in SegmentLists
  /\ language_hint \in LANGUAGE_HINTS
  /\ language = "pt-BR"
  /\ pc = "ready"
  /\ result = NoResult
  /\ service = SERVICE
  /\ module_tables = MODULE_TABLES
  /\ calls = NoCalls
  /\ clock = 0
  /\ metrics = NoValue
  /\ constructed = 1

AnalyzeComprehensive ==
  /\ pc = "ready"
  /\ pc' = "done"
  /\ result' = [op |-> "analyze_comprehensive",
                out |-> analyze_comprehensive(text, total_duration, segments, language_hint)]
  /\ UNCHANGED <<text, total_duration, segments, language_hint, language>>
  /\ UNCHANGED <<service, module_tables, calls, clock, metrics, constructed>>

Next == AnalyzeComprehensive

Spec == Init /\ [][Next]_vars

\* A call of the operation has returned.
Returned(op) == pc = "done" /\ result.op = op

(***************************************************************************)
(* Direct calls of the timing analyzers.                                   *)
(***************************************************************************)
InitTiming ==
  /\ text \in TimingTexts
  /\ total_duration \in DURATIONS
  /\ segments \in TimingSegmentLists
  /\ language_hint = NoHint
  /\ language \in LANGUAGES
  /\ pc = "ready"
  /\ result = NoResult
  /\ service = SERVICE
  /\ module_tables = MODULE_TABLES
  /\ calls = NoCalls
  /\ clock = 0
  /\ metrics = NoValue
  /\ constructed = 1

AnalyzeSpeechRate ==
  /\ pc = "ready"
  /\ pc' = "done"
  /\ result' = [op |-> "analyze_speech_rate",
                out |-> analyze_speech_rate(text, total_duration, language, segments)]
  /\ UNCHANGED <<text, total_duration, segments, language_hint, language>>
  /\ UNCHANGED <<service, module_tables, calls, clock, metrics, constructed>>

AnalyzePauses ==
  /\ pc = "ready"
  /\ pc' = "done"
  /\ result' = [op |-> "analyze_pauses", out |-> analyze_pauses(total_duration, segments)]
  /\ UNCHANGED <<text, total_duration, segments, language_hint, language>>
  /\ UNCHANGED <<service, module_tables, calls, clock, metrics, constructed>>

AnalyzeFluency ==
  /\ pc = "ready"
  /\ pc' = "done"
  /\ result' = [op |-> "analyze_fluency",
                out |-> analyze_fluency(text, total_duration, segments)]
  /\ UNCHANGED <<text, total_duration, segments, language_hint, language>>
  /\ UNCHANGED <<service, module_tables, calls, clock, metrics, constructed>>

NextTiming == AnalyzeSpeechRate \/ AnalyzePauses \/ AnalyzeFluency

SpecTiming == InitTiming /\ [][NextTiming]_vars

(***************************************************************************)
(* Direct calls of the text analyzers.                                     *)
(***************************************************************************)
InitText ==
  /\ text \in Texts
  /\ total_duration = 1000
  /\ segments = NoSegments
  /\ language_hint = NoHint
  /\ language \in { "pt-BR", "en-US" }
  /\ pc = "ready"
  /\ result = NoResult
  /\ service = SERVICE
  /\ module_tables = MODULE_TABLES
  /\ calls = NoCalls
  /\ clock = 0
  /\ metrics = NoValue
  /\ constructed = 1

DetectLanguage ==
  /\ pc = "ready"
  /\ pc' = "done"
  /\ result' = [op |-> "detect_language", out |-> detect_language(text)]
  /\ UNCHANGED <<text, total_duration, segments, language_hint, language>>
  /\ UNCHANGED <<service, module_tables, calls, clock, metrics, constructed>>

AnalyzeVocabulary ==
  /\ pc = "ready"
  /\ pc' = "done"
  /\ result' = [op |-> "analyze_vocabulary", out |-> analyze_vocabulary(text, language)]
  /\ UNCHANGED <<text, total_duration, segments, language_hint, language>>
  /\ UNCHANGED <<service, module_tables, calls, clock, metrics, constructed>>

\* calculate_ttr on the word list of the text.
CalculateTtr ==
  /\ pc = "ready"
  /\ pc' = "done"
  /\ result' = [op |-> "calculate_ttr", out |-> calculate_ttr(_extract_words(text))]
  /\ UNCHANGED <<text, total_duration, segments, language_hint, language>>
  /\ UNCHANGED <<service, module_tables, calls, clock, metrics, constructed>>

NextText == DetectLanguage \/ AnalyzeVocabulary \/ CalculateTtr

SpecText == InitText /\ [][NextText]_vars

(***************************************************************************)
(* Interleaved calls of analyze_comprehensive on one service instance.     *)
(* Each caller runs the body of analyze_comprehensive statement by         *)
(* statement; the locals of a call are its own, the instance, the module   *)
(* tables and the caller's segment list (passed by reference to every      *)
(* call) are shared.  The clock counts the calls begun and returned.       *)
(***************************************************************************)
MaxEvents == 6

CALLERS == { 1, 2 }

CALL_ARGUMENTS ==
  { [text |-> <<"t","h","e"," ","t","h","e"," ","a","n","d"," ","t","h","a","t"," ">>,
     total_duration |-> 1200, language_hint |-> NoHint],
    [text |-> <<"Q","u","e"," ","n","atilde","o"," ","p","a","r","a","."," ">>,
     total_duration |-> 1200, language_hint |-> NoHint],
    [text |-> <<"t","h","e"," ","t","h","e"," ","a","n","d"," ","t","h","a","t"," ">>,
     total_duration |-> 0, language_hint |-> [given |-> TRUE, value |-> <<"P","T">>]] }

SHARED_SEGMENT_LISTS ==
  { NoSegments,
    [given |-> TRUE,
     list |-> << [start |-> 0, end |-> 200], [start |-> 250, end |-> 500],
                 [start |-> 900, end |-> 1000] >>] }

IdleCall ==
  [pc |-> "idle", args |-> NoValue, began |-> 0, returned |-> 0,
   detected_lang |-> NoValue, speech_rate |-> NoValue, pauses |-> NoValue,
   vocabulary |-> NoValue, fluency |-> NoValue, fb |-> NoValue, out |-> NoValue]

\* An instance that counts its calls in an attribute.
ServiceCountingCalls(step, svc) ==
  IF step = "begin" THEN [svc EXCEPT !.attributes = Append(@, "call")] ELSE svc

\* A pause analysis that consumes the caller's list.
SegmentsConsumed(step, segs) ==
  IF step = "pauses" /\ segs.given /\ Len(segs.list) > 0
  THEN [segs EXCEPT !.list = SubSeq(@, 1, Len(@) - 1)]
  ELSE segs

\* What a statement of a call leaves in the instance, the module tables and the
\* caller's segment list: analyze_comprehensive and the methods it calls assign
\* to locals only.
ServiceAfter(step, svc) == svc

TablesAfter(step, tables) == tables

SegmentsAfter(step, segs) == segs

\* The shared state is the one the analyzers are defined on.
SharedIntact == service = SERVICE /\ module_tables = MODULE_TABLES

\* The value a statement computes; on a shared state other than the one the
\* program starts with the analyzers are not defined, and nothing is assumed of
\* the value beyond its depending on that state.
Computed(v) ==
  IF SharedIntact THEN v ELSE [undefined |-> <<service, module_tables>>]

InitShared ==
  /\ text = <<>>
  /\ total_duration = 0
  /\ segments \in SHARED_SEGMENT_LISTS
  /\ language_hint = NoHint
  /\ language = "pt-BR"
  /\ pc = "shared"
  /\ result = NoResult
  /\ service = SERVICE
  /\ module_tables = MODULE_TABLES
  /\ calls = [c \in CALLERS |-> IdleCall]
  /\ clock = 0
  /\ metrics = NoValue
  /\ constructed = 1

\* One statement of caller c: the call's record changes, the shared state is
\* what the statement leaves.
Step(c, step, call) ==
  /\ calls' = [calls EXCEPT ![c] = call]
  /\ service' = ServiceAfter(step, service)
  /\ module_tables' = TablesAfter(step, module_tables)
  /\ segments' = SegmentsAfter(step, segments)
  /\ UNCHANGED <<text, total_duration, language_hint, language, pc, result, metrics,
               constructed>>

BeginCall(c) ==
  /\ calls[c].pc \in { "idle", "returned" }
  /\ clock + 2 <= MaxEvents
  /\ clock' = clock + 1
  /\ \E a \in CALL_ARGUMENTS :
       Step(c, "begin",
            [IdleCall EXCEPT !.pc = "language", !.began = clock + 1,
               !.args = [text |-> a.text, total_duration |-> a.total_duration,
                         segments |-> segments, language_hint |-> a.language_hint]])

ResolveLanguageStep(c) ==
  /\ calls[c].pc = "language"
  /\ UNCHANGED clock
  /\ Step(c, "language",
          [calls[c] EXCEPT !.pc = "speech_rate",
             !.detected_lang =
               Computed(ResolveLanguage(calls[c].args.text, calls[c].args.language_hint))])

SpeechRateStep(c) ==
  /\ calls[c].pc = "speech_rate"
  /\ UNCHANGED clock
  /\ Step(c, "speech_rate",
          [calls[c] EXCEPT !.pc = "pauses",
             !.speech_rate =
               Computed(analyze_speech_rate(calls[c].args.text,
                                            calls[c].args.total_duration,
                                            calls[c].detected_lang.detected_language,
                                            segments))])

PausesStep(c) ==
  /\ calls[c].pc = "pauses"
  /\ UNCHANGED clock
  /\ Step(c, "pauses",
          [calls[c] EXCEPT !.pc = "vocabulary",
             !.pauses = Computed(analyze_pauses(calls[c].args.total_duration, segments))])

VocabularyStep(c) ==
  /\ calls[c].pc = "vocabulary"
  /\ UNCHANGED clock
  /\ Step(c, "vocabulary",
          [calls[c] EXCEPT !.pc = "fluency",
             !.vocabulary =
               Computed(analyze_vocabulary(calls[c].args.text,
                                           calls[c].detected_lang.detected_language))])

FluencyStep(c) ==
  /\ calls[c].pc = "fluency"
  /\ UNCHANGED clock
  /\ Step(c, "fluency",
          [calls[c] EXCEPT !.pc = "feedback",
             !.fluency =
               Computed(analyze_fluency(calls[c].args.text,
                                        calls[c].args.total_duration, segments))])

FeedbackStep(c) ==
  /\ calls[c].pc = "feedback"
  /\ UNCHANGED clock
  /\ Step(c, "feedback",
          [calls[c] EXCEPT !.pc = "score",
             !.fb = Computed(generate_feedback(calls[c].detected_lang, calls[c].speech_rate,
                                               calls[c].pauses, calls[c].vocabulary,
                                               calls[c].fluency))])

\* The overall score and the return: the locals go, the result stays with the
\* caller.
ReturnStep(c) ==
  LET call == calls[c]
      lang == call.detected_lang.detected_language
      overall_score == WeightedSum(_score_speech_rate(call.speech_rate, lang),
                                   _score_pauses(call.pauses),
                                   _score_vocabulary(call.vocabulary),
                                   call.fluency.fluency_score)
  IN  /\ call.pc = "score"
      /\ clock' = clock + 1
      /\ Step(c, "return",
              [IdleCall EXCEPT !.pc = "returned", !.args = call.args,
                 !.began = call.began, !.returned = clock + 1,
                 !.out =
                   Computed([language |-> call.detected_lang,
                             speech_rate |-> call.speech_rate, pauses |-> call.pauses,
                             vocabulary |-> call.vocabulary, fluency |-> call.fluency,
                             overall_score |-> RoundDiv(overall_score, 1000),
                             feedback |-> call.fb.feedback,
                             recommendations |-> call.fb.recommendations])])

NextShared ==
  \E c \in CALLERS :
    \/ BeginCall(c)
    \/ ResolveLanguageStep(c)
    \/ SpeechRateStep(c)
    \/ PausesStep(c)
    \/ VocabularyStep(c)
    \/ FluencyStep(c)
    \/ FeedbackStep(c)
    \/ ReturnStep(c)

SpecShared == InitShared /\ [][NextShared]_vars

(***************************************************************************)
(* Direct calls of the two syllable estimators on single words.            *)
(***************************************************************************)
MaxWordLen == 3

\* Letters of the words: vowels and consonants of both languages, an accented
\* vowel and an upper-case letter.
WORD_LETTERS == { "a", "e", "o", "atilde", "b", "d", "l", "t", "E" }

\* Non-empty alphabetic words.
Words == UNION { [1..n -> WORD_LETTERS] : n \in 1..MaxWordLen }

InitWords ==
  /\ text \in Words
  /\ total_duration = 1000
  /\ segments = NoSegments
  /\ language_hint = NoHint
  /\ language \in { "pt-BR", "en-US" }
  /\ pc = "ready"
  /\ result = NoResult
  /\ service = SERVICE
  /\ module_tables = MODULE_TABLES
  /\ calls = NoCalls
  /\ clock = 0
  /\ metrics = NoValue
  /\ constructed = 1

CountSyllables ==
  /\ pc = "ready"
  /\ pc' = "done"
  /\ result' = [op |-> "count_syllables", out |-> count_syllables(text, language)]
  /\ UNCHANGED <<text, total_duration, segments, language_hint, language>>
  /\ UNCHANGED <<service, module_tables, calls, clock, metrics, constructed>>

TextCountSyllables ==
  /\ pc = "ready"
  /\ pc' = "done"
  /\ result' = [op |-> "text.count_syllables", out |-> text_count_syllables(text, language)]
  /\ UNCHANGED <<text, total_duration, segments, language_hint, language>>
  /\ UNCHANGED <<service, module_tables, calls, clock, metrics, constructed>>

NextWords == CountSyllables \/ TextCountSyllables

SpecWords == InitWords /\ [][NextWords]_vars

(***************************************************************************)
(* Direct calls of analyze_speech_rate around the pace thresholds: texts   *)
(* of a known number of one-syllable words.                                *)
(***************************************************************************)
MaxPaceSyllables == 29

RECURSIVE Repeat(_, _)
Repeat(piece, n) == IF n = 0 THEN <<>> ELSE piece \o Repeat(piece, n - 1)

PaceTexts == { Repeat(<<"a", " ">>, n) : n \in 17..MaxPaceSyllables }

PACE_DURATIONS == { 600, 1200 }

\* No segments, or two segments with a pause of 6 s between them.
PACE_SEGMENT_LISTS ==
  { NoSegments,
    [given |-> TRUE, list |-> << [start |-> 0, end |-> 300], [start |-> 900, end |-> 1200] >>] }

InitPace ==
  /\ text \in PaceTexts
  /\ total_duration \in PACE_DURATIONS
  /\ segments \in PACE_SEGMENT_LISTS
  /\ language_hint = NoHint
  /\ language \in LANGUAGES
  /\ pc = "ready"
  /\ result = NoResult
  /\ service = SERVICE
  /\ module_tables = MODULE_TABLES
  /\ calls = NoCalls
  /\ clock = 0
  /\ metrics = NoValue
  /\ constructed = 1

NextPace == AnalyzeSpeechRate

SpecPace == InitPace /\ [][NextPace]_vars

(***************************************************************************)
(* SpecScores: the three sub-score functions of the class applied to       *)
(* metrics objects drawn from bounded sets.  The scorers read only         *)
(* words_per_minute (tenths), pause_ratio (thousandths), longest_pause     *)
(* (1/100 s), vocabulary_richness, complex_words_ratio and                 *)
(* filler_words_ratio (thousandths); the other fields are left at 0.       *)
(***************************************************************************)
WPM_VALUES ==
  { 0, 899, 900, 901, 999, 1000, 1001, 1399, 1400, 1401, 1499, 1500, 1501,
    1699, 1700, 1701, 1799, 1800, 1801, 2199, 2200, 2201, 2299, 2300, 2301 }

PAUSE_RATIOS == { 0, 99, 100, 101, 249, 250, 251, 500, 700, 749, 750, 751, 1000, 4667 }

LONGEST_PAUSES == { 0, 299, 300, 301 }

RICHNESS_VALUES == { 0, 333, 500, 1000 }

COMPLEX_RATIOS == { 0, 250, 300, 333, 1000 }

FILLER_RATIOS == { 0, 250, 1000 }

SpeechRateInputs ==
  { [kind |-> "speech_rate",
     value |-> SpeechRateMetrics(0, 0, wpm, 0, 0, 0, "medium")] : wpm \in WPM_VALUES }

PauseInputs ==
  { [kind |-> "pauses", value |-> PauseMetrics(0, 0, 0, pr[2], 0, pr[1])] :
      pr \in PAUSE_RATIOS \X LONGEST_PAUSES }

VocabularyInputs ==
  { [kind |-> "vocabulary",
     value |-> VocabularyMetrics(0, 0, v[1], 0, 0, v[2], 0, v[3], 0)] :
      v \in RICHNESS_VALUES \X COMPLEX_RATIOS \X FILLER_RATIOS }

InitScores ==
  /\ text = <<>>
  /\ total_duration = 0
  /\ segments = NoSegments
  /\ language_hint = NoHint
  /\ language \in LANGUAGES
  /\ pc = "ready"
  /\ result = NoResult
  /\ service = SERVICE
  /\ module_tables = MODULE_TABLES
  /\ calls = NoCalls
  /\ clock = 0
  /\ metrics \in SpeechRateInputs \cup PauseInputs \cup VocabularyInputs
  /\ constructed = 1

ScoreSpeechRate ==
  /\ pc = "ready"
  /\ metrics.kind = "speech_rate"
  /\ result' = [op |-> "_score_speech_rate",
                out |-> _score_speech_rate(metrics.value, language)]
  /\ pc' = "done"
  /\ UNCHANGED <<text, total_duration, segments, language_hint, language>>
  /\ UNCHANGED <<service, module_tables, calls, clock, metrics, constructed>>

ScorePauses ==
  /\ pc = "ready"
  /\ metrics.kind = "pauses"
  /\ result' = [op |-> "_score_pauses", out |-> _score_pauses(metrics.value)]
  /\ pc' = "done"
  /\ UNCHANGED <<text, total_duration, segments, language_hint, language>>
  /\ UNCHANGED <<service, module_tables, calls, clock, metrics, constructed>>

ScoreVocabulary ==
  /\ pc = "ready"
  /\ metrics.kind = "vocabulary"
  /\ result' = [op |-> "_score_vocabulary", out |-> _score_vocabulary(metrics.value)]
  /\ pc' = "done"
  /\ UNCHANGED <<text, total_duration, segments, language_hint, language>>
  /\ UNCHANGED <<service, module_tables, calls, clock, metrics, constructed>>

NextScores == ScoreSpeechRate \/ ScorePauses \/ ScoreVocabulary

SpecScores == InitScores /\ [][NextScores]_vars

(***************************************************************************)
(* SpecFluency: analyze_fluency on transcripts whose adjacent words are    *)
(* identical, or similar with ratio 0.5 ("ab ac"), 0.9 ("abcdefghij        *)
(* abcdefghix"), 10/11 ("abcdefghijk abcdefghijx"), 4/7 ("that the"),      *)
(* 2/3 ("abc abd"), 1/3 ("abc axy"); on a transcript without words ("42 ") *)
(* and on transcripts with short sentence spans.                           *)
(***************************************************************************)
FLUENCY_TEXTS ==
  { <<>>,
    <<"4","2"," ">>,
    <<"a","b"," ","a","c"," ","o","n","e","."," ">>,
    <<"a","b","c","d","e","f","g","h","i","j"," ","a","b","c","d","e","f","g","h","i","x"," ">>,
    <<"a","b","c","d","e","f","g","h","i","j","k"," ","a","b","c","d","e","f","g","h","i","j","x"," ">>,
    <<"t","h","a","t"," ","t","h","e"," ","t","h","e"," ">>,
    <<"a","b","c"," ","a","b","d"," ","a","b","d","."," ","n","o","."," ">>,
    <<"f","o","x"," ","f","o","x"," ","f","o","x"," ","f","o","x","."," ">>,
    <<"a","b","c"," ","a","x","y"," ","a","n","d"," ">>,
    <<"n","o","."," ","n","o","."," ","n","o","."," ">> }

\* Total durations, in 1/100 s: zero, 0.05 s, 12 s.
FLUENCY_DURATIONS == { 0, 5, 1200 }

\* No segments; a gap of exactly 2.0 s; a gap of 0.5 s and one of 4 s.
FLUENCY_SEGMENT_LISTS ==
  { NoSegments,
    [given |-> TRUE, list |-> << [start |-> 0, end |-> 200],
                                 [start |-> 400, end |-> 500] >>],
    [given |-> TRUE, list |-> << [start |-> 0, end |-> 200],
                                 [start |-> 250, end |-> 500],
                                 [start |-> 900, end |-> 1000] >>] }

InitFluency ==
  /\ text \in FLUENCY_TEXTS
  /\ total_duration \in FLUENCY_DURATIONS
  /\ segments \in FLUENCY_SEGMENT_LISTS
  /\ language_hint = NoHint
  /\ language = "pt-BR"
  /\ pc = "ready"
  /\ result = NoResult
  /\ service = SERVICE
  /\ module_tables = MODULE_TABLES
  /\ calls = NoCalls
  /\ clock = 0
  /\ metrics = NoValue
  /\ constructed = 1

NextFluency == AnalyzeFluency

SpecFluency == InitFluency /\ [][NextFluency]_vars

(***************************************************************************)
(* SpecTokens: the word extraction of the service and the tokenizer of     *)
(* utils/text on the same transcripts, built from "the fox ", "don't ",    *)
(* "42 ", "a_b ", "well-known. " and "Nao " written with a combining       *)
(* tilde after the a.                                                      *)
(***************************************************************************)
TOKEN_PIECES ==
  { <<"t","h","e"," ","f","o","x"," ">>,
    <<"d","o","n","'","t"," ">>,
    <<"4","2"," ">>,
    <<"a","_","b"," ">>,
    <<"w","e","l","l","-","k","n","o","w","n","."," ">>,
    <<"N","a","combtilde","o"," ">> }

TokenTexts == { Flatten(p) : p \in SeqsUpTo(TOKEN_PIECES, MaxPieces) }

InitTokens ==
  /\ text \in TokenTexts
  /\ total_duration = 0
  /\ segments = NoSegments
  /\ language_hint = NoHint
  /\ language \in { "pt-BR", "en-US" }
  /\ pc = "ready"
  /\ result = NoResult
  /\ service = SERVICE
  /\ module_tables = MODULE_TABLES
  /\ calls = NoCalls
  /\ clock = 0
  /\ metrics = NoValue
  /\ constructed = 1

ExtractWords ==
  /\ pc = "ready"
  /\ pc' = "done"
  /\ result' = [op |-> "_extract_words", out |-> _extract_words(text)]
  /\ UNCHANGED <<text, total_duration, segments, language_hint, language>>
  /\ UNCHANGED <<service, module_tables, calls, clock, metrics, constructed>>

Tokenize ==
  /\ pc = "ready"
  /\ pc' = "done"
  /\ result' = [op |-> "tokenize", out |-> tokenize(text)]
  /\ UNCHANGED <<text, total_duration, segments, language_hint, language>>
  /\ UNCHANGED <<service, module_tables, calls, clock, metrics, constructed>>

CountWords ==
  /\ pc = "ready"
  /\ pc' = "done"
  /\ result' = [op |-> "count_words", out |-> count_words(text)]
  /\ UNCHANGED <<text, total_duration, segments, language_hint, language>>
  /\ UNCHANGED <<service, module_tables, calls, clock, metrics, constructed>>

NextTokens == ExtractWords \/ Tokenize \/ CountWords \/ AnalyzeVocabulary

SpecTokens == InitTokens /\ [][NextTokens]_vars

(***************************************************************************)
(* SpecSyllables: the two syllable estimators on the short words of        *)
(* SpecWords and on longer English and Portuguese words: abed, asked,      *)
(* agree, table, the, have, added, wanted, able, tree; pai, dia, rio, eu,  *)
(* boa, saiu, poeta.                                                       *)
(***************************************************************************)
SYLLABLE_WORDS ==
  { <<"a","b","e","d">>,
    <<"a","s","k","e","d">>,
    <<"a","g","r","e","e">>,
    <<"t","a","b","l","e">>,
    <<"t","h","e">>,
    <<"h","a","v","e">>,
    <<"a","d","d","e","d">>,
    <<"w","a","n","t","e","d">>,
    <<"a","b","l","e">>,
    <<"t","r","e","e">>,
    <<"p","a","i">>,
    <<"d","i","a">>,
    <<"r","i","o">>,
    <<"e","u">>,
    <<"b","o","a">>,
    <<"s","a","i","u">>,
    <<"p","o","e","t","a">> }

InitSyllables ==
  /\ text \in Words \cup SYLLABLE_WORDS
  /\ total_duration = 1000
  /\ segments = NoSegments
  /\ language_hint = NoHint
  /\ language \in { "pt-BR", "en-US" }
  /\ pc = "ready"
  /\ result = NoResult
  /\ service = SERVICE
  /\ module_tables = MODULE_TABLES
  /\ calls = NoCalls
  /\ clock = 0
  /\ metrics = NoValue
  /\ constructed = 1

NextSyllables == CountSyllables \/ TextCountSyllables

SpecSyllables == InitSyllables /\ [][NextSyllables]_vars

(***************************************************************************)
(* SpecFeedback: generate_feedback applied to metrics objects on both      *)
(* sides of the thresholds its rules test.  Only fields the rules read     *)
(* vary; complex_words_ratio is 0.2, filler_words_count 2, the others 0.   *)
(***************************************************************************)
FEEDBACK_CLASSIFICATIONS == { "slow", "medium", "fast" }

FEEDBACK_WPM == { 1000, 1600, 2000 }

FEEDBACK_PAUSE_RATIOS == { 50, 200, 400 }

FEEDBACK_DURATIONS == { 500, 1200 }

FEEDBACK_LONGEST_PAUSES == { 0, 400 }

FEEDBACK_RICHNESS == { 300, 500, 800 }

FEEDBACK_RATIOS == { 0, 200 }

FEEDBACK_FLUENCY == { 500, 700, 900 }

FeedbackInputs ==
  { [kind |-> "feedback",
     language_detection |-> LanguageDetection(x[1], 90, 0, 0),
     speech_rate |-> SpeechRateMetrics(0, 0, x[3], x[5], 0, 0, x[2]),
     pauses |-> PauseMetrics(0, 0, 0, x[6], 0, x[4]),
     vocabulary |-> VocabularyMetrics(0, 0, x[7], 0, 0, 200, 2, x[8], 0),
     fluency |-> FluencyMetrics(x[9], 0, x[10], x[11], 0)] :
      x \in { "pt-BR", "en-US" } \X FEEDBACK_CLASSIFICATIONS \X FEEDBACK_WPM
              \X FEEDBACK_PAUSE_RATIOS \X FEEDBACK_DURATIONS \X FEEDBACK_LONGEST_PAUSES
              \X FEEDBACK_RICHNESS \X FEEDBACK_RATIOS
              \X FEEDBACK_FLUENCY \X { 0, 4 } \X { 0, 3 } }

InitFeedback ==
  /\ text = <<>>
  /\ total_duration = 0
  /\ segments = NoSegments
  /\ language_hint = NoHint
  /\ language = "pt-BR"
  /\ pc = "ready"
  /\ result = NoResult
  /\ service = SERVICE
  /\ module_tables = MODULE_TABLES
  /\ calls = NoCalls
  /\ clock = 0
  /\ metrics \in FeedbackInputs
  /\ constructed = 1

GenerateFeedback ==
  /\ pc = "ready"
  /\ metrics.kind = "feedback"
  /\ pc' = "done"
  /\ result' = [op |-> "generate_feedback",
                out |-> generate_feedback(metrics.language_detection, metrics.speech_rate,
                                          metrics.pauses, metrics.vocabulary,
                                          metrics.fluency)]
  /\ UNCHANGED <<text, total_duration, segments, language_hint, language>>
  /\ UNCHANGED <<service, module_tables, calls, clock, metrics, constructed>>

NextFeedback == GenerateFeedback

SpecFeedback == InitFeedback /\ [][NextFeedback]_vars

(***************************************************************************)
(* SpecSingleton: get_speech_analysis_service called by concurrent         *)
(* threads.  The variable service is the module global                     *)
(* _speech_analysis_service: NoValue is None, else the instance, named by  *)
(* the order of its construction.  A thread can be preempted between the   *)
(* test of the global, the constructor call, the store to the global and   *)
(* the load of the global for the return.                                  *)
(***************************************************************************)
MaxGetCalls == 4

IdleThread == [pc |-> "idle", local |-> NoValue, returned |-> <<>>]

\* Calls begun so far: those returned and those in progress.
CallsBegun ==
  LET n(c) == Len(calls[c].returned) + (IF calls[c].pc = "idle" THEN 0 ELSE 1)
  IN  n(1) + n(2)

InitSingleton ==
  /\ text = <<>>
  /\ total_duration = 0
  /\ segments = NoSegments
  /\ language_hint = NoHint
  /\ language = "pt-BR"
  /\ pc = "threads"
  /\ result = NoResult
  /\ service = NoValue
  /\ module_tables = MODULE_TABLES
  /\ calls = [c \in CALLERS |-> IdleThread]
  /\ clock = 0
  /\ metrics = NoValue
  /\ constructed = 0

SingletonFrame ==
  UNCHANGED <<text, total_duration, segments, language_hint, language, pc, result,
              module_tables, clock, metrics>>

\* if _speech_analysis_service is None:
TestGlobal(c) ==
  /\ pc = "threads"
  /\ calls[c].pc = "idle"
  /\ CallsBegun < MaxGetCalls
  /\ calls' = [calls EXCEPT ![c].pc = IF service = NoValue THEN "construct" ELSE "return"]
  /\ UNCHANGED <<service, constructed>>
  /\ SingletonFrame

\* SpeechAnalysisService()
Construct(c) ==
  /\ calls[c].pc = "construct"
  /\ constructed' = constructed + 1
  /\ calls' = [calls EXCEPT ![c].pc = "store", ![c].local = [instance |-> constructed + 1]]
  /\ UNCHANGED service
  /\ SingletonFrame

\* _speech_analysis_service = <the new instance>
StoreGlobal(c) ==
  /\ calls[c].pc = "store"
  /\ service' = calls[c].local
  /\ calls' = [calls EXCEPT ![c].pc = "return", ![c].local = NoValue]
  /\ UNCHANGED constructed
  /\ SingletonFrame

\* return _speech_analysis_service
ReturnGlobal(c) ==
  /\ calls[c].pc = "return"
  /\ calls' = [calls EXCEPT ![c].pc = "idle",
                            ![c].returned = Append(calls[c].returned, service)]
  /\ UNCHANGED <<service, constructed>>
  /\ SingletonFrame

NextSingleton ==
  \E c \in CALLERS : TestGlobal(c) \/ Construct(c) \/ StoreGlobal(c) \/ ReturnGlobal(c)

SpecSingleton == InitSingleton /\ [][NextSingleton]_vars

(***************************************************************************)
(* utils/metrics calculate_fluency_score.  Ratios in thousandths, the      *)
(* score in hundredths of a point.                                         *)
(***************************************************************************)
calculate_fluency_score(filler_ratio, repetition_ratio, false_start_count, total_words) ==
  LET filler_penalty == filler_ratio * 200
      repetition_penalty == repetition_ratio * 150
      false_start_penalty == false_start_count * 500
      score == IF total_words > 100 /\ filler_ratio + repetition_ratio < 50
               THEN 10000 + 1000 ELSE 10000
  IN  Max(0, score - filler_penalty - repetition_penalty - false_start_penalty)

(***************************************************************************)
(* SpecFluencyScore: calculate_fluency_score on ratios in [0,1], counts of *)
(* false starts and word totals on both sides of its tests.                *)
(***************************************************************************)
MaxFalseStarts == 3

FILLER_RATIO_VALUES == { 0, 10, 24, 25, 49, 50, 500, 1000 }

REPETITION_RATIO_VALUES == { 0, 10, 25, 26, 50, 1000 }

TOTAL_WORDS_VALUES == { 0, 100, 101, 500 }

FluencyScoreInputs ==
  { [kind |-> "fluency_score", filler_ratio |-> x[1], repetition_ratio |-> x[2],
     false_start_count |-> x[3], total_words |-> x[4]] :
      x \in FILLER_RATIO_VALUES \X REPETITION_RATIO_VALUES \X (0..MaxFalseStarts)
              \X TOTAL_WORDS_VALUES }

InitFluencyScore ==
  /\ text = <<>>
  /\ total_duration = 0
  /\ segments = NoSegments
  /\ language_hint = NoHint
  /\ language = "pt-BR"
  /\ pc = "ready"
  /\ result = NoResult
  /\ service = SERVICE
  /\ module_tables = MODULE_TABLES
  /\ calls = NoCalls
  /\ clock = 0
  /\ metrics \in FluencyScoreInputs
  /\ constructed = 1

CalculateFluencyScore ==
  /\ pc = "ready"
  /\ metrics.kind = "fluency_score"
  /\ pc' = "done"
  /\ result' = [op |-> "calculate_fluency_score",
                out |-> calculate_fluency_score(metrics.filler_ratio,
                          metrics.repetition_ratio, metrics.false_start_count,
                          metrics.total_words)]
  /\ UNCHANGED <<text, total_duration, segments, language_hint, language>>
  /\ UNCHANGED <<service, module_tables, calls, clock, metrics, constructed>>

NextFluencyScore == CalculateFluencyScore

SpecFluencyScore == InitFluencyScore /\ [][NextFluencyScore]_vars

(***************************************************************************)
(* enums/analysis SpeechRateClassification and dto/analysis                *)
(* SpeechRateMetrics.  words_per_minute in tenths.                         *)
(***************************************************************************)
SPEECH_RATE_CLASSIFICATIONS ==
  { "too_slow", "slow", "optimal_low", "optimal", "optimal_high", "fast", "too_fast" }

from_wpm(wpm) ==
  IF wpm < 1200 THEN "too_slow"
  ELSE IF wpm < 1400 THEN "slow"
  ELSE IF wpm < 1500 THEN "optimal_low"
  ELSE IF wpm <= 1650 THEN "optimal"
  ELSE IF wpm <= 1800 THEN "optimal_high"
  ELSE IF wpm <= 2000 THEN "fast"
  ELSE "too_fast"

is_optimal(classification) ==
  classification \in { "optimal_low", "optimal", "optimal_high" }

\* The dataclass constructor: the field default, then __post_init__.
dto_SpeechRateMetrics(words_per_minute, classification) ==
  LET field == IF classification.given THEN classification.value ELSE "optimal"
  IN  [words_per_minute |-> words_per_minute,
       classification |-> IF words_per_minute > 0 THEN from_wpm(words_per_minute)
                          ELSE field]

(***************************************************************************)
(* SpecDto: the dto SpeechRateMetrics constructed with and without an      *)
(* explicit classification, for rates at the edges of the classes.         *)
(***************************************************************************)
DTO_WPM_VALUES ==
  { 0, 1, 1199, 1200, 1399, 1400, 1499, 1500, 1650, 1651, 1800, 1801, 2000, 2001, 3000 }

NoClassification == [given |-> FALSE, value |-> "none"]

DtoInputs ==
  { [kind |-> "dto", words_per_minute |-> x[1], classification |-> x[2]] :
      x \in DTO_WPM_VALUES \X
              ({ NoClassification } \cup
               { [given |-> TRUE, value |-> c] : c \in SPEECH_RATE_CLASSIFICATIONS }) }

InitDto ==
  /\ text = <<>>
  /\ total_duration = 0
  /\ segments = NoSegments
  /\ language_hint = NoHint
  /\ language = "pt-BR"
  /\ pc = "ready"
  /\ result = NoResult
  /\ service = SERVICE
  /\ module_tables = MODULE_TABLES
  /\ calls = NoCalls
  /\ clock = 0
  /\ metrics \in DtoInputs
  /\ constructed = 1

ConstructSpeechRateMetrics ==
  /\ pc = "ready"
  /\ metrics.kind = "dto"
  /\ pc' = "done"
  /\ result' = [op |-> "dto.SpeechRateMetrics",
                out |-> dto_SpeechRateMetrics(metrics.words_per_minute,
                                              metrics.classification)]
  /\ UNCHANGED <<text, total_duration, segments, language_hint, language>>
  /\ UNCHANGED <<service, module_tables, calls, clock, metrics, constructed>>

NextDto == ConstructSpeechRateMetrics

SpecDto == InitDto /\ [][NextDto]_vars

(***************************************************************************)
(* SpecOverall: analyze_comprehensive on transcripts, durations and        *)
(* segment lists around the best attainable sub-scores.                    *)
(***************************************************************************)
\* "", five distinct words of which two are long, three distinct words, a
\* transcript with a filler, one with a repetition, one with a short sentence.
OVERALL_TEXTS ==
  { <<>>,
    <<"a","b","c","d","e","f","g","h","i","j"," ","k","l"," ","m","n"," ","o","p","q","r","s","t","u","v","w","x"," ","y","z">>,
    <<"a","b","c","d","e","f","g","h","i","j"," ","k","l"," ","m","n">>,
    <<"t","i","p","o"," ","k","l"," ","m","n"," ","o","p","q","r","s","t","u","v","w","x"," ","y","z">>,
    <<"k","l"," ","k","l"," ","m","n"," ","o","p","q","r","s","t","u","v","w","x"," ","y","z">>,
    <<"k","l"," ","m","n","."," ","o","p"," ","q","r"," ","s","t">> }

\* 0 s, 1.2 s, 2 s, 4 s.
OVERALL_DURATIONS == { 0, 120, 200, 400 }

\* No segments; a gap of 0.3 s; a gap of 0.5 s; a gap of 3.5 s.
OVERALL_SEGMENT_LISTS ==
  { NoSegments,
    [given |-> TRUE, list |-> << [start |-> 0, end |-> 80], [start |-> 110, end |-> 200] >>],
    [given |-> TRUE, list |-> << [start |-> 0, end |-> 50], [start |-> 100, end |-> 200] >>],
    [given |-> TRUE, list |-> << [start |-> 0, end |-> 50], [start |-> 400, end |-> 450] >>] }

InitOverall ==
  /\ text \in OVERALL_TEXTS
  /\ total_duration \in OVERALL_DURATIONS
  /\ segments \in OVERALL_SEGMENT_LISTS
  /\ language_hint \in LANGUAGE_HINTS
  /\ language = "pt-BR"
  /\ pc = "ready"
  /\ result = NoResult
  /\ service = SERVICE
  /\ module_tables = MODULE_TABLES
  /\ calls = NoCalls
  /\ clock = 0
  /\ metrics = NoValue
  /\ constructed = 1

NextOverall == AnalyzeComprehensive

SpecOverall == InitOverall /\ [][NextOverall]_vars

(***************************************************************************)
(* analyze_pauses on timestamps of 1/1000 s.  A gap, the sum of the gaps   *)
(* and their mean are binary64 values: each lies at, just below or just    *)
(* above the decimal value the timestamps give, and round(x, 2) of a value *)
(* whose decimal is a tie (x.xx5) goes to the side the binary64 value      *)
(* lies on.  err gives that side (-1, 0, 1) for total, average and         *)
(* longest; away from a tie it has no effect.                              *)
(***************************************************************************)
\* round(v / (n * 1000), 2) in 1/100 s, for v in 1/1000 s and n > 0.
Round2Float(v, n, side) ==
  LET d == n * 10
      q == v \div d
      r == v - q * d
  IN  IF 2 * r < d THEN q
      ELSE IF 2 * r > d THEN q + 1
      ELSE IF side < 0 THEN q
      ELSE IF side > 0 THEN q + 1
      ELSE IF q % 2 = 0 THEN q ELSE q + 1

\* The sides the three values can lie on together: with one pause the sum,
\* the mean and the maximum are the same binary64 value; with two pauses the
\* mean (a + b) / 2 is correctly rounded and so is no greater than the
\* maximum; from three pauses on the rounded sum can push the mean past it.
FloatSides(pauses, err) ==
  IF Len(pauses) = 1
  THEN [total |-> err.longest, average |-> err.longest, longest |-> err.longest]
  ELSE IF Len(pauses) = 2 /\ pauses[1] = pauses[2]
  THEN [total |-> err.total, average |-> Min(err.average, err.longest),
        longest |-> err.longest]
  ELSE err

analyze_pauses_float(dur, segs, err) ==
  LET pauses == GapsAtLeast(segs, MIN_PAUSE_DURATION * 10)
      total_pauses == Len(pauses)
      total_pause_duration == SumSeq(pauses)
      side == FloatSides(pauses, err)
  IN  PauseMetrics(total_pauses,
                   IF total_pauses > 0
                   THEN Round2Float(total_pause_duration, 1, side.total) ELSE 0,
                   IF total_pauses > 0
                   THEN Round2Float(total_pause_duration, total_pauses, side.average)
                   ELSE 0,
                   IF total_pauses > 0
                   THEN Round2Float(MaxSeq(pauses), 1, side.longest) ELSE 0,
                   IF dur > 0 THEN RoundDiv(total_pauses * 600000, dur) ELSE 0,
                   PauseRatio(total_pause_duration, dur))

\* The hesitations analyze_fluency counts on the same segments (1/1000 s).
HesitationsFloat(segs) == Len(GapsAtLeast(segs, LONG_PAUSE_THRESHOLD * 10))

(***************************************************************************)
(* SpecPausesFloat: analyze_pauses on segment lists with timestamps of     *)
(* 1/1000 s, among them lists whose pauses all last 0.345 s or 2.685 s.    *)
(***************************************************************************)
\* In 1/1000 s: None; one segment; a gap of 0.1 s; gaps of 0.24 s and 0.3 s;
\* one gap of 0.345 s; two gaps of 0.345 s; three gaps of 2.685 s; gaps of
\* 0.25 s, 2 s and 3.5 s.
FLOAT_SEGMENT_LISTS ==
  { NoSegments,
    [given |-> TRUE, list |-> << [start |-> 0, end |-> 1000] >>],
    [given |-> TRUE, list |-> << [start |-> 0, end |-> 1000], [start |-> 1100, end |-> 2000] >>],
    [given |-> TRUE, list |-> << [start |-> 0, end |-> 1000], [start |-> 1240, end |-> 2000],
                                 [start |-> 2300, end |-> 3000] >>],
    [given |-> TRUE, list |-> << [start |-> 0, end |-> 1000], [start |-> 1345, end |-> 2000] >>],
    [given |-> TRUE, list |-> << [start |-> 0, end |-> 1000], [start |-> 1345, end |-> 2000],
                                 [start |-> 2345, end |-> 3000] >>],
    [given |-> TRUE, list |-> << [start |-> 1000, end |-> 1300], [start |-> 3985, end |-> 4585],
                                 [start |-> 7270, end |-> 7370],
                                 [start |-> 10055, end |-> 12055] >>],
    [given |-> TRUE, list |-> << [start |-> 0, end |-> 1000], [start |-> 1250, end |-> 2000],
                                 [start |-> 4000, end |-> 5000],
                                 [start |-> 8500, end |-> 9000] >>] }

\* 0 s, 25 s, 50 s, in 1/1000 s; no pause_ratio or pauses_per_minute is a tie.
FLOAT_DURATIONS == { 0, 25000, 50000 }

FLOAT_SIDES == [total : {-1, 0, 1}, average : {-1, 0, 1}, longest : {-1, 0, 1}]

PausesFloatInputs ==
  { [kind |-> "pauses_float", total_duration |-> x[1], segments |-> x[2], err |-> x[3]] :
      x \in FLOAT_DURATIONS \X FLOAT_SEGMENT_LISTS \X FLOAT_SIDES }

InitPausesFloat ==
  /\ text = <<>>
  /\ total_duration = 0
  /\ segments = NoSegments
  /\ language_hint = NoHint
  /\ language = "pt-BR"
  /\ pc = "ready"
  /\ result = NoResult
  /\ service = SERVICE
  /\ module_tables = MODULE_TABLES
  /\ calls = NoCalls
  /\ clock = 0
  /\ metrics \in PausesFloatInputs
  /\ constructed = 1

AnalyzePausesFloat ==
  /\ pc = "ready"
  /\ metrics.kind = "pauses_float"
  /\ pc' = "done"
  /\ result' = [op |-> "analyze_pauses_float",
                out |-> analyze_pauses_float(metrics.total_duration, metrics.segments,
                                             metrics.err)]
  /\ UNCHANGED <<text, total_duration, segments, language_hint, language>>
  /\ UNCHANGED <<service, module_tables, calls, clock, metrics, constructed>>

NextPausesFloat == AnalyzePausesFloat

SpecPausesFloat == InitPausesFloat /\ [][NextPausesFloat]_vars

(***************************************************************************)
(* Properties.                                                             *)
(***************************************************************************)
InRange(x, lo, hi) == lo <= x /\ x <= hi

\* C1: for every transcript, duration (also <= 0) and segment list given to
\* analyze_comprehensive, the rate, pause and vocabulary sub-scores, the fluency
\* score and the overall score all lie in [0,100].
C1_ScoreBounds ==
  Returned("analyze_comprehensive") =>
    LET r == result.out
    IN  /\ InRange(_score_speech_rate(r.speech_rate, r.language.detected_language),
                   0, 10000)
        /\ InRange(_score_pauses(r.pauses), 0, 10000)
        /\ InRange(_score_vocabulary(r.vocabulary), 0, 10000)
        /\ InRange(r.fluency.fluency_score, 0, 1000)
        /\ InRange(r.overall_score, 0, 1000)

\* C1 witness: a call with a duration <= 0 and pauses whose rate penalty exceeds 100
\* points (the floor is what keeps the sub-score at 0) and whose fluency score is
\* below 100.
C1_Witness ==
  /\ Returned("analyze_comprehensive")
  /\ total_duration <= 0
  /\ result.out.pauses.total_pauses > 0
  /\ result.out.speech_rate.words_per_minute > 1700 + 500
  /\ _score_speech_rate(result.out.speech_rate, result.out.language.detected_language) = 0
  /\ result.out.fluency.fluency_score < 1000

\* C2: whenever analyze_speech_rate reports pause_duration_seconds > 0, the
\* articulation rate it reports is at least the speaking rate it reports.
C2_RateOrdering ==
  (Returned("analyze_speech_rate") /\ result.out.pause_duration_seconds > 0)
    => result.out.articulation_rate_spm >= result.out.speaking_rate_spm

\* C3: analyze_comprehensive with total_duration <= 0 returns what the same call
\* with total_duration = 1.0 returns.
C3_NonPositiveDurationIsOneSecond ==
  (Returned("analyze_comprehensive") /\ total_duration <= 0)
    => result.out = analyze_comprehensive(text, 100, segments, language_hint)

\* The segments are in chronological order and each has 0 <= start <= end.
WellFormedSegments(segs) ==
  /\ \A i \in 1..Len(segs.list) :
       /\ DOMAIN segs.list[i] = {"start", "end"}
       /\ 0 <= segs.list[i].start
       /\ segs.list[i].start <= segs.list[i].end
  /\ \A i \in 2..Len(segs.list) : segs.list[i - 1].end <= segs.list[i].start

\* C4: for every total_duration and every chronologically ordered list of segments
\* with 0 <= start <= end, the pause_ratio of analyze_pauses lies in [0,1].
C4_PauseRatioInUnitInterval ==
  (Returned("analyze_pauses") /\ WellFormedSegments(segments))
    => InRange(result.out.pause_ratio, 0, 1000)

\* C5: analyze_vocabulary returns unique_words <= total_words and a type-token ratio
\* in [0,1]; calculate_ttr returns a value in [0,1], and 0 for the empty list.
C5_TtrBound ==
  /\ Returned("analyze_vocabulary") =>
       /\ result.out.unique_words <= result.out.total_words
       /\ InRange(result.out.vocabulary_richness, 0, 1000)
  /\ Returned("calculate_ttr") =>
       /\ 0 <= result.out.num
       /\ result.out.num <= result.out.den
       /\ result.out.den > 0
       /\ (_extract_words(text) = <<>> => result.out.num = 0)

\* C5 witness: a transcript that repeats a word, so that 0 < unique < total.
C5_Witness ==
  /\ Returned("analyze_vocabulary")
  /\ 0 < result.out.unique_words
  /\ result.out.unique_words < result.out.total_words
  /\ InRange(result.out.vocabulary_richness, 1, 999)

\* The hint, lower-cased, is one of the given spellings.
HintIs(hint, spellings) == hint.given /\ LowerStr(hint.value) \in spellings

\* C6: in analyze_comprehensive a hint that is, case-insensitively, pt, pt-BR or
\* portuguese forces pt-BR, and en, en-US or english forces en-US, both with
\* confidence 1.0 whatever the transcript; any other non-empty hint, and an absent
\* hint, give exactly the result of detect_language(text).
C6_LanguageHint ==
  Returned("analyze_comprehensive") =>
    LET pt == HintIs(language_hint, { <<"p","t">>, <<"p","t","-","b","r">>,
                                      <<"p","o","r","t","u","g","u","e","s","e">> })
        en == HintIs(language_hint, { <<"e","n">>, <<"e","n","-","u","s">>,
                                      <<"e","n","g","l","i","s","h">> })
        other == ~language_hint.given \/ (language_hint.value # <<>> /\ ~pt /\ ~en)
        lang == result.out.language
    IN  /\ pt => lang.detected_language = "pt-BR" /\ lang.confidence = 100
        /\ en => lang.detected_language = "en-US" /\ lang.confidence = 100
        /\ other => lang = detect_language(text)

\* C6 witness: the upper-case hint "PT" on a transcript that detection alone takes
\* for English.
C6_Witness ==
  /\ Returned("analyze_comprehensive")
  /\ language_hint = [given |-> TRUE, value |-> <<"P","T">>]
  /\ detect_language(text).detected_language = "en-US"
  /\ result.out.language.detected_language = "pt-BR"

\* C7: detect_language always returns a result: with zero tokens 'unknown' with
\* confidence 0 and both scores 0; otherwise the language with the strictly higher
\* score wins only if that score exceeds 5, with confidence
\* winning_score / (pt_score + en_score + 0.1) capped at 0.99 (reported to two
\* decimals); on a tie, or when the higher score does not exceed 5, pt-BR with
\* confidence 0.5.  The confidence is in [0,1] in every case.
C7_DetectLanguageRule ==
  Returned("detect_language") =>
    LET r == result.out
        words_set == Range(_extract_words(text))
        den == ScoreDen(text)
        pt == PtScoreNum(text, words_set)
        en == EnScoreNum(text, words_set)
        win == Max(pt, en)
        \* win / (pt + en + 0.1 * den), as num / d
        num == 10 * win
        d == 10 * pt + 10 * en + den
        ConfidenceIsRatio ==
          IF 100 * num >= 99 * d THEN r.confidence = 99
          ELSE /\ 2 * (r.confidence * d - 100 * num) <= d
               /\ 2 * (100 * num - r.confidence * d) <= d
    IN  /\ InRange(r.confidence, 0, 100)
        /\ IF words_set = {}
           THEN r = LanguageDetection("unknown", 0, 0, 0)
           ELSE IF pt # en /\ win > 5 * den
           THEN /\ r.detected_language = (IF pt > en THEN "pt-BR" ELSE "en-US")
                /\ ConfidenceIsRatio
           ELSE r.detected_language = "pt-BR" /\ r.confidence = 50

\* C7 witness: a mixed transcript in which both scores are positive, Portuguese
\* wins and the confidence is the ratio, below the cap.
C7_Witness ==
  /\ Returned("detect_language")
  /\ result.out.detected_language = "pt-BR"
  /\ result.out.english_score > 500
  /\ result.out.portuguese_score > result.out.english_score
  /\ InRange(result.out.confidence, 51, 98)

\* The text "the quick brown fox and that were there".
EXAMPLE_ENGLISH_TEXT ==
  <<"t","h","e"," ","q","u","i","c","k"," ","b","r","o","w","n"," ","f","o","x"," ",
    "a","n","d"," ","t","h","a","t"," ","w","e","r","e"," ","t","h","e","r","e">>

\* C8: a text with no Portuguese marker word, no Portuguese accented character and
\* enough distinct English marker words for the English score to exceed 5 is
\* detected as en-US with confidence > 0.9; so is the example text.
C8_EnglishDetected ==
  Returned("detect_language") =>
    LET words_set == Range(_extract_words(text))
        en_matches == Cardinality(words_set \cap ENGLISH_MARKERS)
        rich == /\ words_set \cap PORTUGUESE_MARKERS = {}
                /\ \A i \in 1..Len(text) : Lower(text[i]) \notin PT_ACCENT_CHARS
                /\ en_matches * 100 > 5 * Cardinality(ENGLISH_MARKERS)
    IN  (rich \/ text = EXAMPLE_ENGLISH_TEXT)
          => /\ result.out.detected_language = "en-US"
             /\ result.out.confidence > 90

\* C8 witness: detect_language has returned for the example text.
C8_Witness ==
  /\ Returned("detect_language")
  /\ text = EXAMPLE_ENGLISH_TEXT
  /\ result.out.detected_language = "en-US"

\* The sum of the gaps before the segments at the indexes in idx.
RECURSIVE GapSum(_, _)
GapSum(l, idx) ==
  IF idx = {} THEN 0
  ELSE LET i == CHOOSE j \in idx : TRUE
       IN  (Get(l[i], "start") - Get(l[i - 1], "end")) + GapSum(l, idx \ {i})

\* The segment list [{0,2},{2.5,5}].
EXAMPLE_SEGMENTS ==
  [given |-> TRUE,
   list |-> << [start |-> 0, end |-> 200], [start |-> 250, end |-> 500] >>]

\* C9: the pause events are exactly the gaps start[i] - end[i-1] >= 0.25 s between
\* consecutive segments: total_pauses is their number and total_pause_duration
\* their sum (so [{0,2},{2.5,5}] gives 1 pause of 0.5 s), and an absent, empty or
\* one-element list gives zero for every pause metric, zero pause duration in the
\* rate metrics and zero hesitation_rate.
C9_PauseEvents ==
  LET l == segments.list
      events == IF segments.given
                THEN { i \in 2..Len(l) : Get(l[i], "start") - Get(l[i - 1], "end") >= 25 }
                ELSE {}
      short == ~segments.given \/ Len(l) < 2
  IN  /\ Returned("analyze_pauses") =>
           /\ result.out.total_pauses = Cardinality(events)
           /\ result.out.total_pause_duration = GapSum(l, events)
           /\ short => result.out = PauseMetrics(0, 0, 0, 0, 0, 0)
           /\ segments = EXAMPLE_SEGMENTS =>
                result.out.total_pauses = 1 /\ result.out.total_pause_duration = 50
      /\ Returned("analyze_speech_rate") =>
           /\ result.out.pause_duration_seconds = GapSum(l, events)
           /\ short => result.out.pause_duration_seconds = 0
      /\ (Returned("analyze_fluency") /\ short) => result.out.hesitation_rate = 0

\* C9 witness: a list whose only gap is exactly 0.25 s, counted as one pause.
C9_Witness ==
  /\ Returned("analyze_pauses")
  /\ segments.given
  /\ Len(segments.list) = 2
  /\ Get(segments.list[2], "start") - Get(segments.list[1], "end") = 25
  /\ result.out.total_pauses = 1
  /\ result.out.total_pause_duration = 25

\* C10: for a transcript from which no word is extracted, analyze_comprehensive with
\* any duration and segments returns a full result with every vocabulary metric 0,
\* an overall_score in [0,100], and the language 'unknown' with confidence 0 unless
\* a recognised hint forces the language.
C10_NoWords ==
  (Returned("analyze_comprehensive") /\ _extract_words(text) = <<>>) =>
    LET r == result.out
        pt == HintIs(language_hint, HINTS_PT)
        en == HintIs(language_hint, HINTS_EN)
    IN  /\ r.vocabulary = VocabularyMetrics(0, 0, 0, 0, 0, 0, 0, 0, 0)
        /\ InRange(r.overall_score, 0, 1000)
        /\ r.language.detected_language =
             (IF pt THEN "pt-BR" ELSE IF en THEN "en-US" ELSE "unknown")
        /\ (~pt /\ ~en) => r.language.confidence = 0

\* C10 witness: a non-empty transcript without words ("42 42 "), a duration <= 0,
\* pauses, and no hint: the language is 'unknown'.
C10_Witness ==
  /\ Returned("analyze_comprehensive")
  /\ text # <<>>
  /\ _extract_words(text) = <<>>
  /\ total_duration <= 0
  /\ result.out.pauses.total_pauses > 0
  /\ ~language_hint.given
  /\ result.out.language.detected_language = "unknown"

C13_SyllableFloor ==
  (Returned("count_syllables") \/ Returned("text.count_syllables")) => result.out >= 1

\* C13 witness: a word without any vowel, counted as one syllable by the service
\* and by utils/text in both languages.
C13_Witness ==
  /\ Returned("text.count_syllables")
  /\ text = <<"t", "d", "l">>
  /\ result.out = 1
  /\ \A lang \in { "pt-BR", "en-US" } :
       count_syllables(text, lang) = 1 /\ text_count_syllables(text, lang) = 1

\* C14: analyze_speech_rate classifies the pace from the articulation rate
\* total_syllables / speech_duration * 60: 'slow' exactly when the rate is strictly
\* below the slow threshold (180 for pt-BR, 200 for en-US), 'fast' exactly when it
\* is strictly above the fast threshold (250 for pt-BR, 280 for en-US), 'medium'
\* otherwise, so that a rate equal to a threshold is 'medium'.
C14_PaceClassification ==
  (Returned("analyze_speech_rate") /\ language \in { "pt-BR", "en-US" }) =>
    LET total_syllables == count_syllables_text(text, language)
        speech_duration == result.out.speech_duration_seconds
        slow == IF language = "pt-BR" THEN 180 ELSE 200
        fast == IF language = "pt-BR" THEN 250 ELSE 280
        cls == result.out.classification
    IN  /\ cls \in { "slow", "medium", "fast" }
        /\ cls = "slow" <=> total_syllables * 6000 < slow * speech_duration
        /\ cls = "fast" <=> total_syllables * 6000 > fast * speech_duration

\* C15: the speech-rate sub-score is 100 exactly when words_per_minute lies in
\* the inclusive ideal band (140..170 for pt-BR, 150..180 for en-US); outside
\* the band it is 100 minus 2 points per WPM of distance to the nearest edge,
\* floored at 0, hence 0 once the rate is 50 WPM or more outside the band.
C15_RateScore ==
  (Returned("_score_speech_rate") /\ language \in {"pt-BR", "en-US"}) =>
    LET wpm == metrics.value.words_per_minute
        lo == IF language = "pt-BR" THEN 1400 ELSE 1500
        hi == IF language = "pt-BR" THEN 1700 ELSE 1800
        inside == lo <= wpm /\ wpm <= hi
        outside == IF wpm < lo THEN lo - wpm ELSE wpm - hi
    IN  /\ (result.out = 10000) <=> inside
        /\ ~inside => result.out = (IF 2 * outside >= 1000 THEN 0
                                    ELSE 10000 - 2 * outside * 10)
        /\ (~inside /\ outside >= 500) => result.out = 0

\* A pt-BR rate of 170.1 WPM, just above the band, scores 99.8.
C15_Witness ==
  /\ Returned("_score_speech_rate")
  /\ language = "pt-BR"
  /\ metrics.value.words_per_minute = 1701
  /\ result.out = 9980

\* C16: the pause sub-score is 100 for 0.1 <= pause_ratio <= 0.25, 80 below
\* 0.1 and max(0, 100 - (pause_ratio - 0.25) * 200) above 0.25; 10 points are
\* then subtracted when longest_pause is strictly above 3.0 s, and the result
\* is floored at 0.
C16_PauseScore ==
  Returned("_score_pauses") =>
    LET ratio == metrics.value.pause_ratio
        base == CASE ratio < 100 -> 8000
                  [] ratio <= 250 -> 10000
                  [] ratio >= 750 -> 0
                  [] OTHER -> 10000 - (ratio - 250) * 20
        long == metrics.value.longest_pause > 300
    IN  result.out = (IF long THEN (IF base >= 1000 THEN base - 1000 ELSE 0) ELSE base)

\* A pause ratio of 0.25 with a longest pause of exactly 3.0 s keeps 100.
C16_Witness ==
  /\ Returned("_score_pauses")
  /\ metrics.value.pause_ratio = 250
  /\ metrics.value.longest_pause = 300
  /\ result.out = 10000

\* C17: the vocabulary sub-score is 50 + vocabulary_richness * 30 +
\* min(complex_words_ratio * 50, 15) - filler_words_ratio * 50, clamped to
\* [0, 100], for every VocabularyMetrics value.
C17_VocabularyScore ==
  Returned("_score_vocabulary") =>
    LET v == metrics.value
        bonus == IF v.complex_words_ratio * 50 >= 15000 THEN 15000
                 ELSE v.complex_words_ratio * 50
        raw == 50000 + v.vocabulary_richness * 30 + bonus - v.filler_words_ratio * 50
        clamped == IF raw < 0 THEN 0 ELSE IF raw > 100000 THEN 100000 ELSE raw
    IN  result.out * 10 = clamped

\* Richness 0.5 with a complex-word ratio of 1.0: the bonus is capped at 15,
\* so the score is 50 + 15 + 15 = 80.
C17_Witness ==
  /\ Returned("_score_vocabulary")
  /\ metrics.value.vocabulary_richness = 500
  /\ metrics.value.complex_words_ratio = 1000
  /\ metrics.value.filler_words_ratio = 0
  /\ result.out = 8000

\* C18: with word_count > 0, fluency_score is 100 - ((repetitions /
\* word_count) * 20 + (self_corrections / word_count) * 15 + hesitation_rate
\* * 5 + incomplete_count * 3) clamped to [0,100], to one decimal, where
\* hesitation_rate is hesitations / total_duration * 60 (0 for a duration
\* <= 0); with word_count = 0 the score is 100 whatever the long pauses and
\* the incomplete sentence spans.
C18_FluencyScore ==
  Returned("analyze_fluency") =>
    LET r == result.out
        word_count == Len(_extract_words(text))
        hesitations ==
          IF segments.given
          THEN Cardinality({ i \in 2..Len(segments.list) :
                 Get(segments.list[i], "start") - Get(segments.list[i - 1], "end")
                   >= 200 })
          ELSE 0
        \* the penalty as a fraction over word_count * total_duration
        den == IF total_duration > 0 THEN word_count * total_duration ELSE word_count
        rate_num == IF total_duration > 0 THEN hesitations * 6000 * 5 * word_count ELSE 0
        share == IF total_duration > 0 THEN total_duration ELSE 1
        penalty == (r.repetition_count * 20 + r.self_corrections_count * 15) * share
                     + rate_num + r.incomplete_sentences * 3 * den
        exact == IF penalty >= 100 * den THEN 0 ELSE 100 * den - penalty
        error == r.fluency_score * den - 10 * exact
    IN  IF word_count = 0 THEN r.fluency_score = 1000
        ELSE 2 * error <= den /\ 0 - 2 * error <= den

\* "42 " has no word, one incomplete span, and a 4 s gap in 12 s: 100.
C18_Witness ==
  /\ Returned("analyze_fluency")
  /\ _extract_words(text) = <<>>
  /\ result.out.incomplete_sentences = 1
  /\ result.out.hesitation_rate = 500
  /\ result.out.fluency_score = 1000

\* C19: repetition_count is the number of adjacent word pairs that are
\* identical; self_corrections_count is the number of adjacent pairs that
\* are not identical and whose similarity ratio 2 * matches / (len + len) is
\* strictly between 0.5 and 0.9, so a pair at exactly 0.5 or 0.9 is not
\* counted.
C19_AdjacentPairs ==
  Returned("analyze_fluency") =>
    LET words == _extract_words(text)
        pairs == 2..Len(words)
        matches(i) == Matches(words[i - 1], words[i], 1, Len(words[i - 1]) + 1,
                              1, Len(words[i]) + 1)
        total(i) == Len(words[i - 1]) + Len(words[i])
        identical == { i \in pairs : words[i] = words[i - 1] }
        similar == { i \in pairs \ identical :
                       /\ 2 * matches(i) * 10 > 5 * total(i)
                       /\ 2 * matches(i) * 10 < 9 * total(i) }
        at_an_end == { i \in pairs \ identical :
                         \/ 2 * matches(i) * 10 = 5 * total(i)
                         \/ 2 * matches(i) * 10 = 9 * total(i) }
    IN  /\ result.out.repetition_count = Cardinality(identical)
        /\ result.out.self_corrections_count = Cardinality(similar)
        /\ (pairs \ identical = at_an_end) => result.out.self_corrections_count = 0

\* "abcdefghij abcdefghix": 9 of 10 letters match, ratio exactly 0.9, no
\* self-correction.
C19_Witness ==
  /\ Returned("analyze_fluency")
  /\ Len(_extract_words(text)) = 2
  /\ Len(_extract_words(text)[1]) = 10
  /\ Matches(_extract_words(text)[1], _extract_words(text)[2], 1, 11, 1, 11) = 9
  /\ result.out.self_corrections_count = 0
  /\ result.out.repetition_count = 0

\* C20: for every transcript, the word sequence the analyzers work on
\* (_extract_words) is the token sequence tokenize returns for it, and
\* VocabularyMetrics.total_words equals count_words(text), also with
\* apostrophes, digits or underscores inside words.
C20_WordsAreTokens ==
  /\ Returned("_extract_words") => result.out = tokenize(text)
  /\ Returned("analyze_vocabulary") => result.out.total_words = count_words(text)

\* The vowel runs of an English word over {a,e,i,o,u,y}, a trailing 'e' opening
\* no new run when the count is already >= 1.
RECURSIVE EnglishVowelRuns(_, _, _, _)
EnglishVowelRuns(word, i, prev_is_vowel, runs) ==
  IF i > Len(word) THEN runs
  ELSE LET is_vowel == word[i] \in { "a", "e", "i", "o", "u", "y" }
           opens == is_vowel /\ ~prev_is_vowel
                      /\ ~(word[i] = "e" /\ i = Len(word) /\ runs >= 1)
       IN  EnglishVowelRuns(word, i + 1, is_vowel, IF opens THEN runs + 1 ELSE runs)

\* The EN-US syllable rule as stated: vowel runs, plus one for consonant + le,
\* minus one for -ed not preceded by t or d, floored at 1; exception words 1.
EnglishSyllableRule(word) ==
  LET n == Len(word)
      le == n > 2 /\ word[n - 1] = "l" /\ word[n] = "e"
              /\ word[n - 2] \notin { "a", "e", "i", "o", "u", "y" }
      ed == n >= 2 /\ word[n - 1] = "e" /\ word[n] = "d"
              /\ ~(n > 2 /\ word[n - 2] \in { "t", "d" })
      raw == EnglishVowelRuns(word, 1, FALSE, 0)
               + (IF le THEN 1 ELSE 0) - (IF ed THEN 1 ELSE 0)
  IN  IF word \in { <<"t","h","e">>, <<"b","e">>, <<"a","r","e">>, <<"w","e","r","e">>,
                    <<"h","a","v","e">>, <<"g","i","v","e">>, <<"l","i","v","e">>,
                    <<"l","o","v","e">>, <<"m","o","v","e">>, <<"c","o","m","e">> }
      THEN 1
      ELSE IF raw < 1 THEN 1 ELSE raw

\* C21: every EN-US syllable count, of utils/text count_syllables and of the
\* count_syllables of the service, is the number of vowel runs (a trailing
\* 'e' opening no new run once the count is >= 1), plus one for a '-le'
\* ending after a consonant, minus one for an '-ed' ending not preceded by
\* 't' or 'd', floored at 1; the exception words count 1.
C21_EnglishSyllables ==
  ((Returned("count_syllables") \/ Returned("text.count_syllables"))
     /\ language = "en-US")
    => result.out = EnglishSyllableRule(LowerStr(text))

\* The vowels and the listed diphthong digraphs of the PT-BR rule.
RULE_PT_VOWELS ==
  { "a","e","i","o","u","aacute","agrave","acirc","atilde","eacute","ecirc","iacute",
    "oacute","ocirc","otilde","uacute" }

RULE_PT_DIPHTHONGS ==
  { <<"a","i">>, <<"a","u">>, <<"e","i">>, <<"e","u">>, <<"i","u">>, <<"o","i">>,
    <<"o","u">>, <<"u","i">>, <<"atilde","o">>, <<"atilde","e">>, <<"otilde","e">> }

\* Syllable starts as stated: a listed diphthong is one start, any other vowel
\* is a start of its own.
RECURSIVE PortugueseSyllableStarts(_, _)
PortugueseSyllableStarts(word, i) ==
  IF i > Len(word) THEN 0
  ELSE IF word[i] \notin RULE_PT_VOWELS THEN PortugueseSyllableStarts(word, i + 1)
  ELSE IF i < Len(word) /\ <<word[i], word[i + 1]>> \in RULE_PT_DIPHTHONGS
       THEN 1 + PortugueseSyllableStarts(word, i + 2)
       ELSE 1 + PortugueseSyllableStarts(word, i + 1)

\* No three vowels in a row: every vowel run is a single vowel or a pair.
VowelRunsAtMostPairs(word) ==
  \A i \in 1..(Len(word) - 2) :
    ~(word[i] \in RULE_PT_VOWELS /\ word[i + 1] \in RULE_PT_VOWELS
        /\ word[i + 2] \in RULE_PT_VOWELS)

\* C22: in the PT-BR estimators two adjacent vowels that form a listed
\* diphthong (ai, au, ei, eu, iu, oi, ou, ui, a-tilde o, a-tilde e, o-tilde e)
\* count as one syllable start, two adjacent vowels that form none count as
\* two, and the result is floored at 1 for a non-empty word.
C22_PortugueseDiphthongs ==
  ((Returned("count_syllables") \/ Returned("text.count_syllables"))
     /\ language = "pt-BR" /\ VowelRunsAtMostPairs(LowerStr(text)))
    => LET starts == PortugueseSyllableStarts(LowerStr(text), 1)
       IN  result.out = (IF starts < 1 THEN 1 ELSE starts)

\* The category of a message: 0 language, 1 rate, 2 pauses, 3 vocabulary,
\* 4 fluency.
MessageCategory(rule) ==
  CASE rule = "language" -> 0
    [] rule \in { "pace_fast", "pace_slow", "pace_ok", "wpm_below_ideal",
                  "wpm_above_ideal", "wpm_within_ideal" } -> 1
    [] rule \in { "many_pauses", "few_pauses", "long_pause" } -> 2
    [] rule \in { "repetitive_vocabulary", "varied_vocabulary", "many_fillers",
                  "complex_vocabulary" } -> 3
    [] OTHER -> 4

\* The deficiency messages and the recommendation each is paired with.
PAIRED_RECOMMENDATION ==
  [pace_fast |-> "rec_slow_down", pace_slow |-> "rec_speed_up",
   many_pauses |-> "rec_reduce_pauses", few_pauses |-> "rec_strategic_pauses",
   repetitive_vocabulary |-> "rec_synonyms", many_fillers |-> "rec_reduce_fillers",
   repetitions |-> "rec_avoid_repetition", self_corrections |-> "rec_practice"]

\* The recommendations paired with the deficiency messages of a feedback list,
\* in the order of the messages.
RECURSIVE PairedRecommendations(_)
PairedRecommendations(feedback) ==
  IF feedback = <<>> THEN <<>>
  ELSE IF feedback[1][2] \in DOMAIN PAIRED_RECOMMENDATION
       THEN <<PAIRED_RECOMMENDATION[feedback[1][2]]>> \o PairedRecommendations(Tail(feedback))
       ELSE PairedRecommendations(Tail(feedback))

\* C23: in every output of generate_feedback the language line comes first
\* and the messages follow in the order rate, pauses, vocabulary, fluency;
\* the recommendations are exactly those paired with the deficiency
\* messages present, in the order of these messages, so none exists without
\* its message.
C23_FeedbackOrder ==
  Returned("generate_feedback") =>
    LET fb == result.out.feedback
        recs == result.out.recommendations
    IN  /\ Len(fb) >= 1 /\ fb[1][2] = "language"
        /\ \A i \in 2..Len(fb) :
             /\ MessageCategory(fb[i][2]) >= 1
             /\ MessageCategory(fb[i - 1][2]) <= MessageCategory(fb[i][2])
        /\ [i \in 1..Len(recs) |-> recs[i][2]] = PairedRecommendations(fb)

\* A result with a recommendation in each of the four categories.
C23_Witness ==
  /\ Returned("generate_feedback")
  /\ [i \in 1..Len(result.out.recommendations) |-> result.out.recommendations[i][2]]
       = << "rec_slow_down", "rec_reduce_pauses", "rec_synonyms", "rec_practice" >>

\* C24: across every interleaving of get_speech_analysis_service calls made
\* by concurrent threads, SpeechAnalysisService is constructed at most once
\* and every call returns that same instance.
C24_SingleInstance ==
  pc = "threads" =>
    /\ constructed <= 1
    /\ \A c \in CALLERS, d \in CALLERS :
         \A i \in 1..Len(calls[c].returned), j \in 1..Len(calls[d].returned) :
           calls[c].returned[i] = calls[d].returned[j]

\* C25: calculate_fluency_score returns a score between 0 and 100 for every
\* filler_ratio and repetition_ratio in [0,1], every false_start_count >= 0
\* and every total_words >= 0.
C25_FluencyScoreRange ==
  Returned("calculate_fluency_score") => InRange(result.out, 0, 10000)

\* C26: a dto SpeechRateMetrics constructed without an explicit
\* classification has, for every words_per_minute >= 0, the classification
\* from_wpm(words_per_minute), so is_optimal() holds exactly when 140 <=
\* words_per_minute <= 180; a classification passed explicitly is kept.
C26_DtoClassification ==
  Returned("dto.SpeechRateMetrics") =>
    IF metrics.classification.given
    THEN result.out.classification = metrics.classification.value
    ELSE /\ result.out.classification = from_wpm(metrics.words_per_minute)
         /\ is_optimal(result.out.classification)
              <=> (1400 <= metrics.words_per_minute /\ metrics.words_per_minute <= 1800)

\* C27: for every transcript with n extracted words, analyze_fluency counts
\* each adjacent pair at most once, as a repetition or as a self-correction
\* and never as both, so repetition_count + self_corrections_count is at
\* most max(0, n - 1), and both counts are 0 when n <= 1.
C27_PairsCountedOnce ==
  Returned("analyze_fluency") =>
    LET n == Len(_extract_words(text))
    IN  /\ result.out.repetition_count >= 0
        /\ result.out.self_corrections_count >= 0
        /\ result.out.repetition_count + result.out.self_corrections_count
             <= Max(0, n - 1)
        /\ n <= 1 => /\ result.out.repetition_count = 0
                     /\ result.out.self_corrections_count = 0

\* A transcript with a repeated pair and a corrected pair, and one whose
\* every pair is a repetition.
C27_Witness ==
  /\ Returned("analyze_fluency")
  /\ \/ /\ result.out.repetition_count >= 1
        /\ result.out.self_corrections_count >= 1
     \/ /\ Len(_extract_words(text)) >= 4
        /\ result.out.repetition_count = Len(_extract_words(text)) - 1

\* The weighted sum of the four sub-scores of a returned analysis, in 1/10000
\* point, before it is rounded.
OverallUnrounded(r) ==
  WeightedSum(_score_speech_rate(r.speech_rate, r.language.detected_language),
              _score_pauses(r.pauses),
              _score_vocabulary(r.vocabulary),
              r.fluency.fluency_score)

\* C28 (as stated): for every VocabularyMetrics produced by analyze_vocabulary
\* the vocabulary sub-score is at most 95, and exactly 50 for a zero-word
\* transcript; no input to analyze_comprehensive yields an overall_score of
\* 100, and the overall_score never exceeds 98.75.
C28_OverallAtMost9875 ==
  Returned("analyze_comprehensive") =>
    LET r == result.out
    IN  /\ _score_vocabulary(r.vocabulary) <= 9500
        /\ r.vocabulary.total_words = 0 => _score_vocabulary(r.vocabulary) = 5000
        /\ r.overall_score # 1000
        /\ r.overall_score * 100 <= 98750

\* C28 (amended): for every VocabularyMetrics produced by analyze_vocabulary
\* the vocabulary sub-score is at most 95, and exactly 50 for a zero-word
\* transcript; the weighted sum of the sub-scores never exceeds 98.75, and the
\* overall_score returned, which is that sum rounded to one decimal, never
\* exceeds 98.8 and so is never 100.
C28_OverallBelow100 ==
  Returned("analyze_comprehensive") =>
    LET r == result.out
    IN  /\ _score_vocabulary(r.vocabulary) <= 9500
        /\ r.vocabulary.total_words = 0 => _score_vocabulary(r.vocabulary) = 5000
        /\ OverallUnrounded(r) <= 987500
        /\ r.overall_score = RoundDiv(OverallUnrounded(r), 1000)
        /\ r.overall_score <= 988
        /\ r.overall_score # 1000

\* Every sub-score at its maximum: rate, pauses and fluency 100, vocabulary
\* 95; the sum is 98.75 and the overall_score returned is 98.8.
C28_Witness ==
  /\ Returned("analyze_comprehensive")
  /\ _score_vocabulary(result.out.vocabulary) = 9500
  /\ _score_pauses(result.out.pauses) = 10000
  /\ result.out.fluency.fluency_score = 1000
  /\ OverallUnrounded(result.out) = 987500
  /\ result.out.overall_score = 988

\* The rules whose message is in the feedback list of a returned analysis.
FeedbackRules(r) == { r.feedback[i][2] : i \in 1..Len(r.feedback) }

\* C29: in every result of analyze_comprehensive the feedback and the scorer
\* agree on the ideal WPM band: the feedback holds the 'within ideal range'
\* rate message exactly when the rate sub-score computed for the overall
\* score is 100, and the 'below ideal' or 'above ideal' message exactly when
\* that sub-score is below 100, for pt-BR, en-US and 'unknown'.
C29_FeedbackAgreesWithScorer ==
  Returned("analyze_comprehensive") =>
    LET r == result.out
        rate_score == _score_speech_rate(r.speech_rate, r.language.detected_language)
        rules == FeedbackRules(r)
    IN  /\ r.language.detected_language \in LANGUAGES
        /\ "wpm_within_ideal" \in rules <=> rate_score = 10000
        /\ ("wpm_below_ideal" \in rules \/ "wpm_above_ideal" \in rules)
             <=> rate_score < 10000
        /\ r.overall_score =
             RoundDiv(WeightedSum(rate_score, _score_pauses(r.pauses),
                                  _score_vocabulary(r.vocabulary),
                                  r.fluency.fluency_score), 1000)

\* 180 words/min in English: inside the en-US band 150-180 and above the
\* pt-BR band 140-170; the message is 'within ideal range'.
C29_Witness ==
  /\ Returned("analyze_comprehensive")
  /\ result.out.language.detected_language = "en-US"
  /\ result.out.speech_rate.words_per_minute = 1800
  /\ "wpm_within_ideal" \in FeedbackRules(result.out)
  /\ result.out.feedback[1][1] = "en"

\* C30: every PauseMetrics returned by analyze_pauses is internally coherent:
\* total_pauses = 0 exactly when total_pause_duration = 0, and then
\* average_pause_duration and longest_pause are 0; otherwise 0.25 <=
\* average_pause_duration <= longest_pause <= total_pause_duration; and for
\* the same segment list the hesitation gaps (>= 2.0 s) that analyze_fluency
\* counts never exceed total_pauses.
C30_PauseMetricsCoherent ==
  Returned("analyze_pauses_float") =>
    LET p == result.out
    IN  /\ p.total_pauses = 0 <=> p.total_pause_duration = 0
        /\ p.total_pauses = 0 =>
             p.average_pause_duration = 0 /\ p.longest_pause = 0
        /\ p.total_pauses > 0 =>
             /\ 25 <= p.average_pause_duration
             /\ p.average_pause_duration <= p.longest_pause
             /\ p.longest_pause <= p.total_pause_duration
        /\ HesitationsFloat(metrics.segments) <= p.total_pauses

====
